---- MODULE Spec2Model ----
(***************************************************************************)
(* Orbit workflow engine: the task runner (services/task_runner.py), the   *)
(* workflow controller (services/pause_resume.py), the execute / pause /   *)
(* resume / cancel endpoints (api/v1/endpoints/workflows.py) and the       *)
(* scheduler's firing of a due workflow (services/scheduler.py), for one   *)
(* persisted workflow.  Every step is one database transaction (a commit   *)
(* or a refresh) together with the synchronous code that follows it up to  *)
(* the next await of the coroutine.  The versioning service               *)
(* (services/versioning_service.py), the idempotency service               *)
(* (services/idempotency_service.py), the scheduler's background loop      *)
(* (services/scheduler.py), the websocket connection manager               *)
(* (services/websocket_manager.py) and the dynamic task service            *)
(* (services/dynamic_task_service.py) are modelled the same way, each      *)
(* with its own rows, sessions and specifications.  The DAG validator      *)
(* (services/dag_executor.py) and the retry policy (models/retry_policy.py)*)
(* are functions, applied to inputs drawn from bounded sets;               *)
(* create_workflow (services/workflow_service.py) is one request.          *)
(***************************************************************************)
EXTENDS Integers, Sequences, FiniteSets, TLC

\* ------------------------------------------------------------------ bounds
\* Number of background executions (execute_workflow_task) enqueued in Spec.
MaxRunners == 2

\* Number of background executions enqueued in SpecLayer.
MaxLayerRunners == 1

\* Number of background executions enqueued in SpecControl.
MaxControlRunners == 1

\* Number of versioning requests that may be in flight at once in SpecVersion.
MaxVersionRequests == 2

\* Number of versioning requests that may be in flight at once in SpecSnapshot.
MaxSnapshotRequests == 1

\* Number of tasks of the longest task list handed to topological_sort.
MaxSortTasks == 3

\* Number of dependencies of a task in those lists.
MaxSortDependencies == 2

\* Number of tasks in the request body of create_workflow.
MaxCreateTasks == 2

\* RetryPolicy field values of SpecDelay, in seconds, and the attempts asked.
MaxPolicyRetries == 3

MaxInitialDelay == 2

MaxMaxDelay == 4

MaxBackoffMultiplier == 3

MaxAttempts == 4

\* Number of DynamicTaskGroup rows created.
MaxGroups == 2

\* Length of the longest input array of a map group.
MaxItems == 2

\* Number of sessions that execute task groups.
MaxGroupExecs == 1

\* Number of WebSockets that connect.
MaxSockets == 2

\* Number of coroutines that broadcast concurrently.
MaxPublishers == 2

\* Number of executions the scheduler may enqueue.
MaxScheduledRunners == 2

\* The largest cron period, in minutes.
MaxCron == 2

\* Minutes up to which the scheduler's clock advances.
MaxMinutes == 3

\* Number of callers of the idempotency service that may be in flight at once.
MaxCallers == 2

\* Number of callers of the idempotency service in SpecLookup.
MaxLookupCallers == 1

\* Number of IdempotencyKey rows up to which SpecIdempotent takes callers.
MaxRecords == 3

\* Hours up to which the clock advances.
MaxClock == 3

\* Largest ttl_hours a caller passes to create_idempotency_record.
MaxTtlHours == 2

\* Number of WorkflowVersion rows up to which SpecVersion takes requests.
MaxVersions == 3

\* Number of WorkflowChangeLog rows up to which SpecVersion takes rollbacks.
MaxChangeLog == 4

\* ------------------------------------------------------------ definitions
NULL == "NULL"

\* Outcomes of one run of a task's action under its optional timeout.
Outcomes == {"ok", "timeout", "error"}

\* A persisted task: name, dependencies, and max_retries of the RetryPolicy the
\* runner parses from the row's retry_policy column (the default when unset).
TaskDef(n, deps, m) == [name |-> n, dependencies |-> deps, max_retries |-> m]

\* The workflow of Spec: a two-layer chain whose first task may be retried once.
WorkflowDefs ==
    { << TaskDef("a", << >>, 1), TaskDef("b", <<"a">>, 0) >> }

\* The workflow of SpecLayer: a parallel layer of two tasks, one of them
\* retried once, followed by a task that depends on both.
LayerWorkflowDefs ==
    { << TaskDef("a", << >>, 1), TaskDef("b", << >>, 0), TaskDef("c", <<"a", "b">>, 0) >> }

\* The workflow of SpecSchedule: one task that is not retried.
ScheduledWorkflowDefs ==
    { << TaskDef("a", << >>, 0) >> }

VARIABLES
    tasks,              \* Workflow.tasks: the persisted task definitions
    wf_status,          \* Workflow.status (database row)
    wf_paused_at,       \* Workflow.paused_at (database row): NULL or a timestamp
    task_status,        \* Task.status per task name (database rows)
    task_retry_count,   \* Task.retry_count per task name (database rows)
    task_result,        \* Task.result per task name (database rows)
    task_retries_total, \* metrics.task_retries_total per task_name label
    runner,             \* the background executions: TaskRunner.execute_workflow
    co,                 \* the _execute_task_with_retry coroutines of each runner
    wf_event,           \* the status of the last event published for the workflow
    task_event,         \* per task name, the status of the last event published
    wf_name,            \* Workflow.name (database row)
    wf_description,     \* Workflow.description (database row)
    versions,           \* the workflow's WorkflowVersion rows, in insertion order
    changelog,          \* the workflow's WorkflowChangeLog rows, in insertion order
    vreq,               \* the versioning requests in flight, one session each
    idempotencykey,     \* the IdempotencyKey rows of one (workflow_id, task_name, key)
    idem_created,       \* number of IdempotencyKey rows inserted so far (their ids)
    utcnow,             \* datetime.utcnow(): hours for time-to-live, minutes for cron
    ireq,               \* the callers of the idempotency service, one session each
    schedule,           \* the workflow's WorkflowSchedule row, if any
    scheduler,          \* the WorkflowScheduler and its _run_scheduler task
    active_connections, \* ConnectionManager.active_connections: the subscriber list
    websocket,          \* each WebSocket: its peer and its endpoint handler
    publisher,          \* the broadcast calls in flight, one per publishing coroutine
    dynamictaskgroup,   \* the DynamicTaskGroup rows, in insertion order
    group_exec,         \* the execute_map_tasks / execute_reduce_task calls, one session each
    workflow_data,      \* WorkflowCreate.tasks: the task list handed to the validator
    execution_levels,   \* what DAGExecutor.topological_sort returned or raised for it
    create_req,         \* the create_workflow call in flight
    repository,         \* the Workflow and Task rows create_workflow has stored
    retry_policy,       \* a RetryPolicy with jitter disabled
    delays              \* calculate_delay(0), calculate_delay(1), ... of that policy

\* The rows and sessions of the versioning service.
versioning_vars == << wf_name, wf_description, versions, changelog, vreq >>

\* The rows, the clock and the sessions of the idempotency service.
idempotency_vars == << idempotencykey, idem_created, utcnow, ireq >>

\* The inputs and results of the validator, of create_workflow and of the
\* retry policy.
service_vars == << workflow_data, execution_levels, create_req, repository,
                  retry_policy, delays >>

\* The task groups and their executions.
dynamic_vars == << dynamictaskgroup, group_exec >>

\* The subscriber list, the sockets and the broadcasts in flight.
ws_vars == << active_connections, websocket, publisher >>

\* The schedule row and the scheduler's background task.
scheduler_vars == << schedule, scheduler >>

\* The rows and coroutines of the workflow's executions.
execution_vars == << wf_status, wf_paused_at, task_status, task_retry_count,
                     task_result, runner, co, wf_event, task_event,
                     task_retries_total >>

\* What a subscriber saw last of the workflow and of each task.
event_vars == << wf_event, task_event >>

vars == << tasks, wf_status, wf_paused_at, task_status, task_retry_count,
           task_result, task_retries_total, runner, co, event_vars, versioning_vars, idempotency_vars, scheduler_vars,
           ws_vars, dynamic_vars, service_vars >>

Runners == DOMAIN runner

Names(ts) == { ts[i].name : i \in 1..Len(ts) }

TaskByName(ts, n) == ts[CHOOSE i \in 1..Len(ts) : ts[i].name = n]

\* ------------------------------------------------- DAGExecutor (dag_executor.py)
SeqContains(s, x) == \E i \in 1..Len(s) : s[i] = x

\* Number of occurrences of x in sequence s.
RECURSIVE CountIn(_, _)
CountIn(s, x) ==
    IF s = << >> THEN 0
    ELSE (IF Head(s) = x THEN 1 ELSE 0) + CountIn(Tail(s), x)

\* Some task names a dependency that is no task of the list.
HasUnknownDependency(ts) ==
    \E i \in 1..Len(ts) : \E j \in 1..Len(ts[i].dependencies) :
        ts[i].dependencies[j] \notin Names(ts)

\* An in-degree that counts a task's dependencies as one.
InDegreeCapped(ts) ==
    [n \in Names(ts) |-> IF Len(TaskByName(ts, n).dependencies) > 0 THEN 1 ELSE 0]

\* in_degree: one per entry of the task's dependencies.
InDegree(ts) == [n \in Names(ts) |-> Len(TaskByName(ts, n).dependencies)]

\* adjacency[dep]: the dependents of dep, in task order, once per entry.
RECURSIVE AdjacencyFrom(_, _, _)
AdjacencyFrom(ts, dep, i) ==
    IF i > Len(ts) THEN << >>
    ELSE LET k == CountIn(ts[i].dependencies, dep)
         IN  [j \in 1..k |-> ts[i].name] \o AdjacencyFrom(ts, dep, i + 1)

Adjacency(ts) == [n \in Names(ts) |-> AdjacencyFrom(ts, n, 1)]

\* The names with in-degree 0, in task order: the initial queue.
RECURSIVE ZeroDegree(_, _, _)
ZeroDegree(ts, deg, i) ==
    IF i > Len(ts) THEN << >>
    ELSE (IF deg[ts[i].name] = 0 THEN << ts[i].name >> ELSE << >>)
         \o ZeroDegree(ts, deg, i + 1)

\* Decrement the in-degree of each dependent in turn; queue those reaching 0.
RECURSIVE ReduceDependents(_, _)
ReduceDependents(dependents, st) ==
    IF dependents = << >> THEN st
    ELSE LET d   == Head(dependents)
             deg == [st.deg EXCEPT ![d] = @ - 1]
         IN  ReduceDependents(Tail(dependents),
                 [deg |-> deg,
                  queue |-> IF deg[d] = 0 THEN Append(st.queue, d) ELSE st.queue])

\* Process the current level: for each task of it, reduce its dependents.
RECURSIVE ProcessLevel(_, _, _)
ProcessLevel(ts, level, st) ==
    IF level = << >> THEN st
    ELSE ProcessLevel(ts, Tail(level),
             ReduceDependents(Adjacency(ts)[Head(level)], st))

\* while queue: emit the queue as a level, process it, continue with the new queue.
RECURSIVE SortLoop(_, _, _, _, _)
SortLoop(ts, deg, queue, levels, processed) ==
    IF queue = << >> THEN [levels |-> levels, processed |-> processed]
    ELSE LET st == ProcessLevel(ts, queue, [deg |-> deg, queue |-> << >>])
         IN  SortLoop(ts, st.deg, st.queue, Append(levels, queue),
                      processed + Len(queue))

\* A sort that returns without comparing processed_count with len(tasks).
TopologicalSortUnchecked(ts) ==
    IF HasUnknownDependency(ts)
    THEN [ok |-> FALSE, error |-> "unknown_dependency", levels |-> << >>]
    ELSE LET r == SortLoop(ts, InDegree(ts), ZeroDegree(ts, InDegree(ts), 1), << >>, 0)
         IN  [ok |-> TRUE, error |-> NULL, levels |-> r.levels]

\* DAGExecutor.topological_sort: the execution levels, or the ValueError raised.
TopologicalSort(ts) ==
    IF HasUnknownDependency(ts)
    THEN [ok |-> FALSE, error |-> "unknown_dependency", levels |-> << >>]
    ELSE LET r == SortLoop(ts, InDegree(ts), ZeroDegree(ts, InDegree(ts), 1), << >>, 0)
         IN  IF r.processed # Len(ts)
             THEN [ok |-> FALSE, error |-> "cycle", levels |-> << >>]
             ELSE [ok |-> TRUE, error |-> NULL, levels |-> r.levels]

\* --------------------------------------------------- RetryPolicy (retry_policy.py)
\* should_retry off by one: the last attempt is taken to be retryable too.
ShouldRetryInclusive(m, attempt) == attempt <= m

\* RetryPolicy.should_retry with max_retries = m.
ShouldRetry(m, attempt) == attempt < m

\* The range of the retry loop: for attempt in range(max_retries + 1).
HasNextAttempt(m, attempt) == attempt + 1 <= m

\* ------------------------------------------------------------ initial state
FreeRunner == [pc |-> "free", origin |-> NULL, level |-> 0, status |-> NULL,
               execution_levels |-> NULL, events |-> << >>]

\* A coroutine not yet created.  retry_count and status are the values this
\* execution has assigned to its session's Task object (-1, NULL: none yet);
\* fails, runs and running_events count the failed attempts, the runs of the
\* action and the `running` broadcasts of this coroutine.
IdleTask == [pc |-> "idle", attempt |-> 0, retry_count |-> -1, status |-> NULL,
             fails |-> 0, runs |-> 0, running_events |-> 0]

\* Task.result of a task that has not run: None.
NoResult == [status |-> NULL, error |-> NULL, attempts |-> 0]

\* The canonical definition create_version snapshots: workflow_data.
WorkflowData(name, description, ts) ==
    [name |-> name, description |-> description, tasks |-> ts]

NoWorkflow == WorkflowData(NULL, NULL, << >>)

\* A session of the versioning service with no request in progress.  op is
\* the request, workflow the Workflow object of the session, latest and
\* target the rows read (0: none) and latest_active the is_active read with
\* the latest, dirty_name and dirty_description the changes of the workflow
\* row the session has yet to commit, new_version the row returned, returned
\* how the last request ended.
IdleRequest == [pc |-> "idle", op |-> NULL, is_draft |-> FALSE, workflow |-> NoWorkflow,
                latest |-> 0, latest_active |-> FALSE, target |-> 0,
                dirty_name |-> FALSE, dirty_description |-> FALSE,
                new_version |-> 0, returned |-> NULL]

\* The workflow's name and description as created, no version, no changelog,
\* k sessions at rest.
InitVersioning(k) ==
    /\ wf_name = "n1"
    /\ wf_description = "d1"
    /\ versions = << >>
    /\ changelog = << >>
    /\ vreq = [s \in 1..k |-> IdleRequest]

\* IdempotencyKey.expires_at of a row without a time-to-live (None).
NoExpiry == -1

\* No IdempotencyKey row (None).
NoRecord == [id |-> 0, status |-> NULL, expires_at |-> NoExpiry, result |-> NULL]

\* A caller of the idempotency service that has not called it yet.
IdleCaller == [pc |-> "idle", is_duplicate |-> FALSE, record |-> NoRecord, returned |-> NULL]

\* An empty idempotencykey table at hour 0, and k callers.
InitIdempotency(k) ==
    /\ idempotencykey = {}
    /\ idem_created = 0
    /\ utcnow = 0
    /\ ireq = [s \in 1..k |-> IdleCaller]

\* DynamicTaskGroup.results: None, or a list.
NoResults == [is_none |-> TRUE, list |-> << >>]

ResultList(list) == [is_none |-> FALSE, list |-> list]

\* A DynamicTaskGroup row as its constructor leaves it: the counters 0, status
\* pending, results None.
DynamicTaskGroup(task_type, items, total_tasks) ==
    [task_type |-> task_type, items |-> items, total_tasks |-> total_tasks,
     completed_tasks |-> 0, failed_tasks |-> 0, status |-> "pending",
     results |-> NoResults]

\* A session in which no group is being executed.  task_group is the object the
\* session loaded, loaded its attributes as of the last flush, returned the
\* outcome of each awaitable handed to gather (or of the reducer).
IdleGroupExec ==
    [pc |-> "idle", id |-> 0, task_group |-> DynamicTaskGroup(NULL, << >>, 0),
     loaded |-> DynamicTaskGroup(NULL, << >>, 0), returned |-> << >>]

\* No group yet; k sessions that execute groups.
InitDynamic(k) ==
    /\ dynamictaskgroup = << >>
    /\ group_exec = [e \in 1..k |-> IdleGroupExec]

\* topological_sort has not been called.
NotSorted == [ok |-> FALSE, error |-> NULL, levels |-> << >>]

\* No create_workflow call: nothing stored, nothing raised.
IdleCreate == [pc |-> "idle", raised |-> NULL]

EmptyRepository == [workflow |-> FALSE, tasks |-> << >>]

\* RetryPolicy(): the field defaults, in seconds.
DefaultRetryPolicy ==
    [max_retries |-> 0, initial_delay |-> 1, max_delay |-> 60, backoff_multiplier |-> 2]

\* No validator call, no create_workflow call, no delay computed.
InitServices ==
    /\ workflow_data = << >>
    /\ execution_levels = NotSorted
    /\ create_req = IdleCreate
    /\ repository = EmptyRepository
    /\ retry_policy = DefaultRetryPolicy
    /\ delays = << >>

\* A coroutine that is not inside broadcast.  connection is the element the
\* for loop is sending to, index the iterator's next position (0-based),
\* disconnected the local list of failed connections, raised the exception
\* the last broadcast ended with.  audience is the subscriber list as it was
\* when the current (or last) broadcast was called, sent the connections whose
\* send_text has returned in it.
IdlePublisher ==
    [pc |-> "idle", connection |-> 0, index |-> 0, disconnected |-> << >>, raised |-> NULL,
     audience |-> << >>, sent |-> << >>]

\* ConnectionManager(): no subscriber; k sockets not yet connected and n
\* publishing coroutines.
InitWebsocket(k, n) ==
    /\ active_connections = << >>
    /\ websocket = [w \in 1..k |-> "new"]
    /\ publisher = [b \in 1..n |-> IdlePublisher]

\* A datetime column that is None (next_run, last_run).
NoTime == -1

\* No WorkflowSchedule row for the workflow.
NoSchedule == [cron_expression |-> 0, enabled |-> FALSE, next_run |-> NoTime, last_run |-> NoTime]

\* WorkflowScheduler(check_interval=60) before start(): not running, no task.
\* now, due and workflow_status are the locals of the tick in flight: the
\* time it read, the schedule object it selected (due_at: the next_run it was
\* selected for), the workflow status it read;
\* wake_at is the end of the sleep; fired lists the next_run instants for
\* which the scheduler enqueued the workflow.
StoppedScheduler ==
    [running |-> FALSE, pc |-> "stopped", now |-> 0, due |-> NoSchedule, due_at |-> NoTime,
     workflow_status |-> NULL, wake_at |-> 0, fired |-> << >>]

\* No schedule, scheduler not started.
InitScheduler ==
    /\ schedule = NoSchedule
    /\ scheduler = StoppedScheduler

\* A workflow as WorkflowService.create_workflow persists it: status pending,
\* paused_at unset, every task pending with retry_count 0 and no result.
InitWith(defs, k) ==
    /\ InitWebsocket(0, 0)
    /\ InitDynamic(0)
    /\ InitServices
    /\ InitScheduler
    /\ InitVersioning(0)
    /\ InitIdempotency(0)
    /\ tasks \in defs
    /\ wf_status = "pending"
    /\ wf_event = NULL
    /\ wf_paused_at = NULL
    /\ task_status = [n \in Names(tasks) |-> "pending"]
    /\ task_event = [n \in Names(tasks) |-> NULL]
    /\ task_retry_count = [n \in Names(tasks) |-> 0]
    /\ task_retries_total = [n \in Names(tasks) |-> 0]
    /\ task_result = [n \in Names(tasks) |-> NoResult]
    /\ runner = [r \in 1..k |-> FreeRunner]
    /\ co = [r \in 1..k |-> [n \in Names(tasks) |-> IdleTask]]

Init == InitWith(WorkflowDefs, MaxRunners)

InitLayer == InitWith(LayerWorkflowDefs, MaxLayerRunners)

InitControl == InitWith(WorkflowDefs, MaxControlRunners)

\* ------------------------------------------------ enqueueing an execution
HasFreeRunner == \E r \in Runners : runner[r].pc = "free"

NextFreeRunner == CHOOSE r \in Runners :
    /\ runner[r].pc = "free"
    /\ \A q \in Runners : runner[q].pc = "free" => r <= q

\* background_tasks.add_task(execute_workflow_task, workflow_id) and
\* asyncio.create_task(execute_workflow_task(workflow.id)).
Enqueue(origin) ==
    runner' = [runner EXCEPT ![NextFreeRunner] = [@ EXCEPT !.pc = "queued",
                                                           !.origin = origin]]

\* ------------------------------------- WorkflowControlService (pause_resume.py)
\* The timestamp datetime.utcnow() records.
Now == "t"

Outcome(status, paused_at, error) ==
    [status |-> status, paused_at |-> paused_at, error |-> error]

\* pause_workflow: ValueError unless running or pending; a workflow whose
\* paused_at is set is returned as it is; otherwise paused, paused_at recorded.
PauseResult(status, paused_at) ==
    IF status \notin {"running", "pending"}
    THEN Outcome(status, paused_at, "ValueError")
    ELSE IF paused_at # NULL
    THEN Outcome(status, paused_at, NULL)
    ELSE Outcome("paused", Now, NULL)

\* A resume that sets pending and leaves paused_at as recorded.
ResumeResultKeepsPausedAt(status, paused_at) ==
    IF status # "paused"
    THEN Outcome(status, paused_at, "ValueError")
    ELSE Outcome("pending", paused_at, NULL)

\* resume_workflow: ValueError unless paused; otherwise pending, paused_at cleared.
ResumeResult(status, paused_at) ==
    IF status # "paused"
    THEN Outcome(status, paused_at, "ValueError")
    ELSE Outcome("pending", NULL, NULL)

\* A cancel that is refused for a paused workflow as well.
CancelResultRejectsPaused(status, paused_at) ==
    IF status \in {"completed", "failed", "cancelled", "paused"}
    THEN Outcome(status, paused_at, "ValueError")
    ELSE Outcome("cancelled", paused_at, NULL)

\* cancel_workflow: ValueError in a terminal state; otherwise cancelled.
CancelResult(status, paused_at) ==
    IF status \in {"completed", "failed", "cancelled"}
    THEN Outcome(status, paused_at, "ValueError")
    ELSE Outcome("cancelled", paused_at, NULL)

\* POST /{workflow_id}/pause
PauseWorkflow ==
    /\ LET res == PauseResult(wf_status, wf_paused_at)
       IN  /\ wf_status' = res.status
           /\ wf_paused_at' = res.paused_at
           /\ wf_event' = IF res.error # NULL THEN wf_event ELSE "paused"
    /\ UNCHANGED << task_event, service_vars, dynamic_vars, ws_vars, scheduler_vars, idempotency_vars, versioning_vars, tasks, task_status, task_retry_count, task_result, runner, co, task_retries_total >>

\* POST /{workflow_id}/resume: after a successful resume the workflow is
\* re-queued for execution.
ResumeWorkflow ==
    /\ LET res == ResumeResult(wf_status, wf_paused_at)
       IN  /\ wf_status' = res.status
           /\ wf_paused_at' = res.paused_at
           /\ wf_event' = IF res.error # NULL THEN wf_event ELSE "resumed"
           /\ IF res.error # NULL
              THEN UNCHANGED runner
              ELSE HasFreeRunner /\ Enqueue("resume")
    /\ UNCHANGED << task_event, service_vars, dynamic_vars, ws_vars, scheduler_vars, idempotency_vars, versioning_vars, tasks, task_status, task_retry_count, task_result, co, task_retries_total >>

\* POST /{workflow_id}/cancel
CancelWorkflow ==
    /\ LET res == CancelResult(wf_status, wf_paused_at)
       IN  /\ wf_status' = res.status
           /\ wf_paused_at' = res.paused_at
           /\ wf_event' = IF res.error # NULL THEN wf_event ELSE "cancelled"
    /\ UNCHANGED << task_event, service_vars, dynamic_vars, ws_vars, scheduler_vars, idempotency_vars, versioning_vars, tasks, task_status, task_retry_count, task_result, runner, co, task_retries_total >>

\* ------------------------------------------ execute endpoint (workflows.py)
\* The execute endpoint answers 400 when the workflow is running.
ExecuteRejects(status) == status = "running"

\* POST /{workflow_id}/execute: queue an execution unless rejected.
ExecuteWorkflow ==
    /\ ~ExecuteRejects(wf_status)
    /\ HasFreeRunner
    /\ Enqueue("execute")
    /\ UNCHANGED << event_vars, service_vars, dynamic_vars, ws_vars, scheduler_vars, idempotency_vars, versioning_vars, tasks, wf_status, wf_paused_at, task_status, task_retry_count,
                    task_result, co, task_retries_total >>

\* ------------------------------------------------- scheduler (scheduler.py)
\* The scheduler skips a due workflow that is running.
ScheduleSkipsPaused(status) == status = "paused"

ScheduleSkips(status) == status = "running"

\* _execute_scheduled_workflow for a due schedule of the workflow: unless
\* skipped, an execution is started in the background.
ExecuteScheduledWorkflow ==
    /\ ~ScheduleSkips(wf_status)
    /\ HasFreeRunner
    /\ Enqueue("schedule")
    /\ UNCHANGED << event_vars, service_vars, dynamic_vars, ws_vars, scheduler_vars, idempotency_vars, versioning_vars, tasks, wf_status, wf_paused_at, task_status, task_retry_count,
                    task_result, co, task_retries_total >>

\* --------------------------------------------- TaskRunner (task_runner.py)
\* level_tasks = [task for task in workflow.tasks if task.name in level]
LevelTasks(r) ==
    { n \in Names(tasks) :
        SeqContains(runner[r].execution_levels.levels[runner[r].level], n) }

MaxRetries(n) == TaskByName(tasks, n).max_retries

Publish(r, status) == Append(runner[r].events, status)

\* execute_workflow, lines 38-63: load the workflow, set it running, commit,
\* broadcast; the execution order is computed from the loaded tasks.
RunnerStart(r) ==
    /\ runner[r].pc = "queued"
    /\ wf_status' = "running"
    /\ wf_event' = "running"
    /\ runner' = [runner EXCEPT ![r] = [@ EXCEPT !.pc = "refresh", !.level = 1,
                                                 !.status = "running",
                                                 !.execution_levels = TopologicalSort(tasks),
                                                 !.events = Publish(r, "running")]]
    /\ UNCHANGED << task_event, service_vars, dynamic_vars, ws_vars, scheduler_vars, idempotency_vars, versioning_vars, tasks, wf_paused_at, task_status, task_retry_count, task_result, co, task_retries_total >>

\* An except clause that swallows the error: the level loop goes on.
RunnerFailContinues(r) ==
    IF runner[r].level < Len(runner[r].execution_levels.levels)
    THEN /\ runner' = [runner EXCEPT ![r] = [@ EXCEPT !.pc = "refresh", !.level = @ + 1]]
         /\ UNCHANGED << wf_status, wf_event >>
    ELSE /\ wf_status' = "completed"
         /\ wf_event' = "completed"
         /\ runner' = [runner EXCEPT ![r] = [@ EXCEPT !.pc = "completed",
                            !.status = "completed",
                            !.events = Publish(r, "completed")]]

\* except Exception, lines 107-126: mark the workflow failed, commit, broadcast,
\* re-raise.
RunnerFail(r) ==
    /\ wf_status' = "failed"
    /\ wf_event' = "failed"
    /\ runner' = [runner EXCEPT ![r] = [@ EXCEPT !.pc = "failed", !.status = "failed",
                                                 !.events = Publish(r, "failed")]]

\* Top of the level loop, line 68: session.refresh(workflow) re-reads the row.
\* (A ValueError of topological_sort is handled by the except clause.)
RunnerRefresh(r) ==
    /\ runner[r].pc = "refresh"
    /\ IF ~runner[r].execution_levels.ok
       THEN RunnerFail(r)
       ELSE /\ runner' = [runner EXCEPT ![r] = [@ EXCEPT !.pc = "check",
                                                         !.status = wf_status]]
            /\ UNCHANGED << wf_status, wf_event >>
    /\ UNCHANGED << task_event, service_vars, dynamic_vars, ws_vars, scheduler_vars, idempotency_vars, versioning_vars, tasks, wf_paused_at, task_status, task_retry_count, task_result, co, task_retries_total >>

\* The statuses on which the level loop stops, line 69.
StopsOn(status) == status = "paused"

\* asyncio.gather over the level's tasks, lines 81-86: every coroutine starts.
Launch(r) ==
    co' = [co EXCEPT ![r] = [n \in Names(tasks) |->
              IF n \in LevelTasks(r)
              THEN [co[r][n] EXCEPT !.pc = "attempt"]
              ELSE co[r][n]]]

\* Lines 69-86: on a stopping status broadcast it and return; otherwise launch
\* the level.
RunnerCheck(r) ==
    /\ runner[r].pc = "check"
    /\ IF StopsOn(runner[r].status)
       THEN /\ runner' = [runner EXCEPT ![r] = [@ EXCEPT !.pc = "halted",
                                   !.events = Publish(r, runner[r].status)]]
            /\ wf_event' = runner[r].status
            /\ UNCHANGED co
       ELSE /\ runner' = [runner EXCEPT ![r].pc = "gather"]
            /\ Launch(r)
            /\ UNCHANGED wf_event
    /\ UNCHANGED << task_event, service_vars, dynamic_vars, ws_vars, scheduler_vars, idempotency_vars, versioning_vars, tasks, wf_status, wf_paused_at, task_status, task_retry_count,
                    task_result, task_retries_total >>

\* A wait that ends with the first awaitable that returns.
GatherReturnsOnFirst(r) == \E n \in LevelTasks(r) : co[r][n].pc = "done"

\* gather returns its results once every awaitable of the level has returned.
GatherReturns(r) == \A n \in LevelTasks(r) : co[r][n].pc = "done"

\* gather propagates the first exception raised by one of its awaitables; the
\* others are not cancelled.
GatherRaises(r) == \E n \in LevelTasks(r) : co[r][n].pc = "raised"

\* Lines 84-105 and 107-126: the await of gather ends; next level, completion,
\* or the except clause.
RunnerGather(r) ==
    /\ runner[r].pc = "gather"
    /\ IF GatherRaises(r)
       THEN RunnerFail(r)
       ELSE /\ GatherReturns(r)
            /\ IF runner[r].level < Len(runner[r].execution_levels.levels)
               THEN /\ runner' = [runner EXCEPT ![r] = [@ EXCEPT !.pc = "refresh",
                                                                 !.level = @ + 1]]
                    /\ UNCHANGED << wf_status, wf_event >>
               ELSE /\ wf_status' = "completed"
                    /\ wf_event' = "completed"
                    /\ runner' = [runner EXCEPT ![r] = [@ EXCEPT !.pc = "completed",
                                       !.status = "completed",
                                       !.events = Publish(r, "completed")]]
    /\ UNCHANGED << task_event, service_vars, dynamic_vars, ws_vars, scheduler_vars, idempotency_vars, versioning_vars, tasks, wf_paused_at, task_status, task_retry_count, task_result, co, task_retries_total >>

\* retry_count counted from one, like the `attempts` of the error result.
TaskAttemptCountsFromOne(r, n) ==
    /\ co[r][n].pc = "attempt"
    /\ task_retry_count' = [task_retry_count EXCEPT ![n] = co[r][n].attempt + 1]
    /\ co' = [co EXCEPT ![r][n] = [@ EXCEPT !.pc = "exec",
                                            !.retry_count = co[r][n].attempt + 1]]
    /\ UNCHANGED << event_vars, service_vars, dynamic_vars, ws_vars, scheduler_vars, idempotency_vars, versioning_vars, tasks, wf_status, wf_paused_at, task_status, task_result, runner, task_retries_total >>

\* _execute_task_with_retry, lines 140-145: task.retry_count = attempt; commit.
TaskAttempt(r, n) ==
    /\ co[r][n].pc = "attempt"
    /\ task_retry_count' = [task_retry_count EXCEPT ![n] = co[r][n].attempt]
    /\ co' = [co EXCEPT ![r][n] = [@ EXCEPT !.pc = "exec",
                                            !.retry_count = co[r][n].attempt]]
    /\ UNCHANGED << event_vars, service_vars, dynamic_vars, ws_vars, scheduler_vars, idempotency_vars, versioning_vars, tasks, wf_status, wf_paused_at, task_status, task_result, runner, task_retries_total >>

\* _execute_task, lines 221-229: status running; commit; broadcast running.
TaskExec(r, n) ==
    /\ co[r][n].pc = "exec"
    /\ task_status' = [task_status EXCEPT ![n] = "running"]
    /\ task_event' = [task_event EXCEPT ![n] = "running"]
    /\ co' = [co EXCEPT ![r][n] = [@ EXCEPT !.pc = "action", !.status = "running",
                                            !.running_events = @ + 1]]
    /\ UNCHANGED << wf_event, service_vars, dynamic_vars, ws_vars, scheduler_vars, idempotency_vars, versioning_vars, tasks, wf_status, wf_paused_at, task_retry_count, task_result, runner, task_retries_total >>

\* Task.result after a success ({"status": "success", ...}), and after the last
\* failed attempt ({"error": ..., "attempts": attempt + 1}).
SuccessResult == [status |-> "success", error |-> NULL, attempts |-> 0]

ErrorResult(outcome, attempt) ==
    [status |-> NULL, error |-> outcome, attempts |-> attempt + 1]

\* metrics.task_retries_total.labels(task_name).inc(): the statement of the
\* asyncio.TimeoutError branch (line 175); the except Exception branch has none.
RetriesTracked(total, n, outcome) ==
    IF outcome = "timeout" THEN [total EXCEPT ![n] = @ + 1] ELSE total

\* _execute_task lines 231-273 and _execute_task_with_retry lines 149-212: the
\* action ends.  ok: completed, result stored, return.  timeout / error: retry
\* while should_retry(attempt), else failed, error stored, re-raise; when the
\* loop runs out the last error is raised.
TaskAction(r, n, outcome) ==
    /\ co[r][n].pc = "action"
    /\ LET c == co[r][n]
           m == MaxRetries(n)
       IN  IF outcome = "ok"
           THEN /\ task_status' = [task_status EXCEPT ![n] = "completed"]
                /\ UNCHANGED task_retries_total
                /\ task_event' = [task_event EXCEPT ![n] = "completed"]
                /\ task_result' = [task_result EXCEPT ![n] = SuccessResult]
                /\ co' = [co EXCEPT ![r][n] = [@ EXCEPT !.pc = "done",
                                !.status = "completed", !.runs = @ + 1]]
           ELSE IF ~ShouldRetry(m, c.attempt)
           THEN /\ task_status' = [task_status EXCEPT ![n] = "failed"]
                /\ UNCHANGED task_retries_total
                /\ task_event' = [task_event EXCEPT ![n] = "failed"]
                /\ task_result' = [task_result EXCEPT ![n] = ErrorResult(outcome, c.attempt)]
                /\ co' = [co EXCEPT ![r][n] = [@ EXCEPT !.pc = "raised",
                                !.status = "failed", !.runs = @ + 1, !.fails = @ + 1]]
           ELSE /\ UNCHANGED << task_status, task_result, task_event >>
                /\ task_retries_total' = RetriesTracked(task_retries_total, n, outcome)
                /\ co' = [co EXCEPT ![r][n] = [@ EXCEPT
                                !.pc = IF HasNextAttempt(m, c.attempt)
                                       THEN "attempt" ELSE "raised",
                                !.attempt = IF HasNextAttempt(m, c.attempt)
                                            THEN @ + 1 ELSE @,
                                !.runs = @ + 1, !.fails = @ + 1]]
    /\ UNCHANGED << wf_event, service_vars, dynamic_vars, ws_vars, scheduler_vars, idempotency_vars, versioning_vars, tasks, wf_status, wf_paused_at, task_retry_count, runner >>

\* ------------------------------- VersioningService (versioning_service.py)
Requests == DOMAIN vreq

\* The definitions an edit of the workflow may store.
WorkflowEdits ==
    { WorkflowData("n1", "d1", << TaskDef("a", << >>, 1), TaskDef("b", <<"a">>, 0) >>),
      WorkflowData("n2", "d2", << TaskDef("a", << >>, 1), TaskDef("b", <<"a">>, 0) >>),
      WorkflowData("n1", "d1", << TaskDef("a", << >>, 1), TaskDef("b", << >>, 0) >>) }

\* The session of a request that has ended: what it was and what it returned.
Ended(s, row, how) ==
    [IdleRequest EXCEPT !.op = vreq[s].op, !.new_version = row, !.returned = how]

\* _calculate_checksum: SHA-256 of the definition's JSON with sorted keys, a
\* function of name, description and the task list and of nothing else.
Checksum(data) == << "sha256", data.name, data.description, data.tasks >>

\* WorkflowRepository.update / TaskRepository.update: the workflow is edited.
UpdateWorkflow(d) ==
    /\ d # WorkflowData(wf_name, wf_description, tasks)
    /\ wf_name' = d.name
    /\ wf_description' = d.description
    /\ tasks' = d.tasks
    /\ UNCHANGED << service_vars, dynamic_vars, ws_vars, scheduler_vars, idempotency_vars, execution_vars, versions, changelog, vreq >>

\* The requests in flight.
InFlight == { s \in Requests : vreq[s].pc # "idle" }

\* Room for the rows that the requests in flight and one more may insert: a
\* request inserts at most one version and two change log rows.
HasRoom ==
    /\ Len(versions) + Cardinality(InFlight) < MaxVersions
    /\ Len(changelog) + 2 * Cardinality(InFlight) + 2 <= MaxChangeLog

\* select ... order_by(desc(version_number)) ... first(): a row with the
\* largest version_number (any of them when several rows share it).
LatestRows ==
    { i \in 1..Len(versions) :
        \A j \in 1..Len(versions) :
            versions[j].version_number <= versions[i].version_number }

\* get_version: the rows with that version_number.
RowsNumbered(v) == { i \in 1..Len(versions) : versions[i].version_number = v }

\* The change_summary of a snapshot request, and of a rollback to version v.
UserSummary == << "summary", 0 >>

RollbackSummary(v) == << "Rolled back to version", v >>

\* version_number = 1 if latest_version is None else latest + 1 (line 101).
NextVersionNumber(latest) ==
    IF latest = 0 THEN 1 ELSE versions[latest].version_number + 1

\* A duplicate test that looks at an active latest version only.
IsDuplicateOfActive(row, checksum) == row.is_active /\ row.checksum = checksum

\* Line 124: the latest version has the checksum of the workflow.
IsDuplicate(row, checksum) == row.checksum = checksum

\* POST /{workflow_id}/versions, lines 38-42: the endpoint loads the workflow
\* with its tasks.
CreateVersionLoad(s, draft) ==
    /\ vreq[s].pc = "idle"
    /\ HasRoom
    /\ vreq' = [vreq EXCEPT ![s] = [IdleRequest EXCEPT !.pc = "select",
                    !.op = "create", !.is_draft = draft,
                    !.workflow = WorkflowData(wf_name, wf_description, tasks)]]
    /\ UNCHANGED << service_vars, dynamic_vars, ws_vars, scheduler_vars, idempotency_vars, tasks, execution_vars, wf_name, wf_description, versions, changelog >>

\* create_version, lines 92-126: read the latest version; when it has the
\* workflow's checksum, return it; otherwise go on to write.
SelectLatest(s, latest) ==
    IF latest # 0 /\ IsDuplicate(versions[latest], Checksum(vreq[s].workflow))
    THEN vreq' = [vreq EXCEPT ![s] = Ended(s, latest, "existing")]
    ELSE vreq' = [vreq EXCEPT ![s] = [@ EXCEPT !.pc = "commit", !.latest = latest,
                       !.latest_active = (latest # 0 /\ versions[latest].is_active)]]

CreateVersionSelect(s) ==
    /\ vreq[s].pc = "select"
    /\ vreq[s].op = "create"
    /\ \E latest \in (IF versions = << >> THEN {0} ELSE LatestRows) :
           SelectLatest(s, latest)
    /\ UNCHANGED << service_vars, dynamic_vars, ws_vars, scheduler_vars, idempotency_vars, tasks, execution_vars, wf_name, wf_description, versions, changelog >>

\* Lines 128-149: the new WorkflowVersion row.
NewVersion(s, summary) ==
    [version_number |-> NextVersionNumber(vreq[s].latest),
     name |-> vreq[s].workflow.name,
     description |-> vreq[s].workflow.description,
     workflow_data |-> vreq[s].workflow,
     change_summary |-> summary,
     is_active |-> ~vreq[s].is_draft,
     is_draft |-> vreq[s].is_draft,
     checksum |-> Checksum(vreq[s].workflow)]

\* Lines 155-163: the change log row of a new version.
VersionChangeLog(s) ==
    [from_version |-> IF vreq[s].latest = 0 THEN 0
                      ELSE versions[vreq[s].latest].version_number,
     to_version |-> NextVersionNumber(vreq[s].latest),
     change_type |-> IF vreq[s].latest = 0 THEN "created" ELSE "updated"]

\* Lines 128-166: the commit.  The latest version read is deactivated when
\* the new one is no draft and the latest was active; the new version and
\* its change log row are inserted.
CommitVersion(s, summary) ==
    LET latest == vreq[s].latest
        kept   == IF ~vreq[s].is_draft /\ latest # 0 /\ vreq[s].latest_active
                  THEN [versions EXCEPT ![latest].is_active = FALSE]
                  ELSE versions
    IN  /\ versions' = Append(kept, NewVersion(s, summary))
        /\ changelog' = Append(changelog, VersionChangeLog(s))

CreateVersionCommit(s) ==
    /\ vreq[s].pc = "commit"
    /\ vreq[s].op = "create"
    /\ CommitVersion(s, UserSummary)
    /\ vreq' = [vreq EXCEPT ![s] = Ended(s, Len(versions) + 1, "new")]
    /\ UNCHANGED << service_vars, dynamic_vars, ws_vars, scheduler_vars, idempotency_vars, tasks, execution_vars, wf_name, wf_description >>

\* POST /{workflow_id}/rollback; rollback_to_version lines 243-246: the target
\* version is read; ValueError when there is none.
RollbackGetVersion(s, v) ==
    /\ vreq[s].pc = "idle"
    /\ HasRoom
    /\ IF RowsNumbered(v) = {}
       THEN vreq' = [vreq EXCEPT ![s] = [IdleRequest EXCEPT !.op = "rollback",
                         !.returned = "ValueError"]]
       ELSE \E t \in RowsNumbered(v) :
               vreq' = [vreq EXCEPT ![s] = [IdleRequest EXCEPT !.pc = "workflow",
                            !.op = "rollback", !.target = t]]
    /\ UNCHANGED << service_vars, dynamic_vars, ws_vars, scheduler_vars, idempotency_vars, tasks, execution_vars, wf_name, wf_description, versions, changelog >>

\* Lines 248-263: the workflow row is read (without its tasks) and given the
\* name and description of the target version, in the session.
RollbackLoadWorkflow(s) ==
    /\ vreq[s].pc = "workflow"
    /\ vreq' = [vreq EXCEPT ![s] = [@ EXCEPT !.pc = "select",
                    !.workflow = WorkflowData(versions[vreq[s].target].name,
                                              versions[vreq[s].target].description,
                                              << >>),
                    !.dirty_name = (versions[vreq[s].target].name # wf_name),
                    !.dirty_description =
                        (versions[vreq[s].target].description # wf_description)]]
    /\ UNCHANGED << service_vars, dynamic_vars, ws_vars, scheduler_vars, idempotency_vars, tasks, execution_vars, wf_name, wf_description, versions, changelog >>

\* Lines 266-270 with create_version lines 92-126: the latest version is read,
\* then workflow.tasks, which this session has not loaded.  The load on
\* access either yields the persisted tasks or is refused by the asynchronous
\* session, which ends the request with nothing committed.
RollbackSelect(s) ==
    /\ vreq[s].pc = "select"
    /\ vreq[s].op = "rollback"
    /\ \/ vreq' = [vreq EXCEPT ![s] = Ended(s, 0, "LoadError")]
       \/ \E latest \in LatestRows :
             LET loaded == [vreq EXCEPT ![s].workflow.tasks = tasks]
             IN  IF IsDuplicate(versions[latest], Checksum(loaded[s].workflow))
                 THEN vreq' = [loaded EXCEPT ![s] = [@ EXCEPT !.pc = "log",
                                   !.latest = latest, !.new_version = latest,
                                   !.returned = "existing"]]
                 ELSE vreq' = [loaded EXCEPT ![s] = [@ EXCEPT !.pc = "commit",
                                   !.latest = latest,
                                   !.latest_active = versions[latest].is_active]]
    /\ UNCHANGED << service_vars, dynamic_vars, ws_vars, scheduler_vars, idempotency_vars, tasks, execution_vars, wf_name, wf_description, versions, changelog >>

\* A commit of the rollback's session writes the attributes of the workflow
\* row that the session has changed and not yet committed.
WriteWorkflow(s) ==
    /\ wf_name' = IF vreq[s].dirty_name THEN vreq[s].workflow.name ELSE wf_name
    /\ wf_description' = IF vreq[s].dirty_description
                         THEN vreq[s].workflow.description ELSE wf_description

\* The commit of create_version inside the rollback: the new version and the
\* session's workflow row.
RollbackCommitVersion(s) ==
    /\ vreq[s].pc = "commit"
    /\ vreq[s].op = "rollback"
    /\ CommitVersion(s, RollbackSummary(versions[vreq[s].target].version_number))
    /\ WriteWorkflow(s)
    /\ vreq' = [vreq EXCEPT ![s] = [@ EXCEPT !.pc = "log",
                    !.dirty_name = FALSE, !.dirty_description = FALSE,
                    !.new_version = Len(versions) + 1, !.returned = "new"]]
    /\ UNCHANGED << service_vars, dynamic_vars, ws_vars, scheduler_vars, idempotency_vars, tasks, execution_vars >>

\* Lines 272-281: the change log row of the rollback.
RollbackChangeLog(s) ==
    [from_version |-> versions[vreq[s].new_version].version_number - 1,
     to_version |-> versions[vreq[s].new_version].version_number,
     change_type |-> "rolled_back"]

\* Lines 283-290: the rollback's change log row is committed, and with it
\* the workflow row when create_version has not committed it.
RollbackLog(s) ==
    /\ vreq[s].pc = "log"
    /\ changelog' = Append(changelog, RollbackChangeLog(s))
    /\ WriteWorkflow(s)
    /\ vreq' = [vreq EXCEPT ![s] = Ended(s, vreq[s].new_version, vreq[s].returned)]
    /\ UNCHANGED << service_vars, dynamic_vars, ws_vars, scheduler_vars, idempotency_vars, tasks, execution_vars, versions >>

VersionStep ==
    \/ \E s \in Requests : \E draft \in BOOLEAN : CreateVersionLoad(s, draft)
    \/ \E s \in Requests : CreateVersionSelect(s)
    \/ \E s \in Requests : CreateVersionCommit(s)

RollbackStep ==
    \/ \E s \in Requests : \E v \in 1..MaxVersions : RollbackGetVersion(s, v)
    \/ \E s \in Requests : RollbackLoadWorkflow(s)
    \/ \E s \in Requests : RollbackSelect(s)
    \/ \E s \in Requests : RollbackCommitVersion(s)
    \/ \E s \in Requests : RollbackLog(s)

\* ------------------------------- IdempotencyService (idempotency_service.py)

Callers == DOMAIN ireq

\* IdempotencyKey.is_expired at time t.
IsExpiredInclusive(record, t) ==
    IF record.expires_at = NoExpiry THEN FALSE ELSE t >= record.expires_at

IsExpired(record, t) ==
    IF record.expires_at = NoExpiry THEN FALSE ELSE t > record.expires_at

\* result.first() of the select by (workflow_id, task_name, key): no row, or
\* one of the matching rows (the statement has no ORDER BY).
FirstRows == IF idempotencykey = {} THEN { NoRecord } ELSE idempotencykey

\* check_idempotency: what it returns for the selected row at time t, and
\* whether it deletes that row.
CheckIdempotency(existing, t) ==
    IF existing = NoRecord
    THEN [is_duplicate |-> FALSE, record |-> NoRecord, deleted |-> FALSE]
    ELSE IF IsExpired(existing, t)
    THEN [is_duplicate |-> FALSE, record |-> NoRecord, deleted |-> TRUE]
    ELSE IF existing.status = "processing"
    THEN [is_duplicate |-> TRUE, record |-> existing, deleted |-> FALSE]
    ELSE IF existing.status = "completed"
    THEN [is_duplicate |-> TRUE, record |-> existing, deleted |-> FALSE]
    ELSE IF existing.status = "failed"
    THEN [is_duplicate |-> FALSE, record |-> existing, deleted |-> FALSE]
    ELSE [is_duplicate |-> FALSE, record |-> NoRecord, deleted |-> FALSE]

\* Callers between a not-duplicate answer and their insert.
Creating == { s \in Callers : ireq[s].pc = "create" }

\* A caller asks check_idempotency for the triple.  A duplicate ends the
\* call; otherwise the caller goes on to create its record.
CallCheckIdempotency(s) ==
    /\ ireq[s].pc = "idle"
    /\ idem_created + Cardinality(Creating) < MaxRecords
    /\ \E existing \in FirstRows :
         LET res == CheckIdempotency(existing, utcnow)
         IN  /\ idempotencykey' = IF res.deleted THEN idempotencykey \ { existing }
                                  ELSE idempotencykey
             /\ ireq' = [ireq EXCEPT ![s] =
                    [pc |-> IF res.is_duplicate THEN "idle" ELSE "create",
                     is_duplicate |-> res.is_duplicate,
                     record |-> res.record,
                     returned |-> IF res.is_duplicate THEN "duplicate" ELSE "proceed"]]
    /\ UNCHANGED << idem_created, utcnow, tasks, execution_vars, versioning_vars, scheduler_vars, service_vars, dynamic_vars, ws_vars >>

\* create_idempotency_record: inserts a processing row that expires ttl_hours
\* from now.
NewRecord(id, ttl_hours) ==
    [id |-> id, status |-> "processing", expires_at |-> utcnow + ttl_hours, result |-> NULL]

CreateIdempotencyRecord(s, ttl_hours) ==
    /\ ireq[s].pc = "create"
    /\ idem_created' = idem_created + 1
    /\ idempotencykey' = idempotencykey \cup { NewRecord(idem_created', ttl_hours) }
    /\ ireq' = [ireq EXCEPT ![s].pc = "run",
                            ![s].record = NewRecord(idem_created', ttl_hours)]
    /\ UNCHANGED << utcnow, tasks, execution_vars, versioning_vars, scheduler_vars, service_vars, dynamic_vars, ws_vars >>

\* The result of the caller's run of the handler, and the results that
\* mark_completed may be given.
HandlerResult == "r1"

Results == { HandlerResult, "r2" }

\* mark_completed / mark_failed: select the row by id and, if it is still
\* there, set its status; mark_completed also stores the result.
Mark(idempotency_key_id, status, result) ==
    { IF record.id = idempotency_key_id
      THEN [record EXCEPT !.status = status,
                          !.result = IF status = "completed" THEN result ELSE record.result]
      ELSE record :
        record \in idempotencykey }

MarkCompleted(s, result) ==
    /\ ireq[s].pc = "run"
    /\ idempotencykey' = Mark(ireq[s].record.id, "completed", result)
    /\ ireq' = [ireq EXCEPT ![s].pc = "idle", ![s].returned = "completed"]
    /\ UNCHANGED << idem_created, utcnow, tasks, execution_vars, versioning_vars, scheduler_vars, service_vars, dynamic_vars, ws_vars >>

MarkFailed(s) ==
    /\ ireq[s].pc = "run"
    /\ idempotencykey' = Mark(ireq[s].record.id, "failed", NULL)
    /\ ireq' = [ireq EXCEPT ![s].pc = "idle", ![s].returned = "failed"]
    /\ UNCHANGED << idem_created, utcnow, tasks, execution_vars, versioning_vars, scheduler_vars, service_vars, dynamic_vars, ws_vars >>

\* mark_completed / mark_failed called with the id of any row that was
\* created: neither looks at the row's status.
MarkCompletedById(idempotency_key_id, result) ==
    /\ \E record \in idempotencykey : record.id = idempotency_key_id
    /\ idempotencykey' = Mark(idempotency_key_id, "completed", result)
    /\ UNCHANGED << idem_created, utcnow, ireq, tasks, execution_vars, versioning_vars, scheduler_vars, service_vars, dynamic_vars, ws_vars >>

MarkFailedById(idempotency_key_id) ==
    /\ \E record \in idempotencykey : record.id = idempotency_key_id
    /\ idempotencykey' = Mark(idempotency_key_id, "failed", NULL)
    /\ UNCHANGED << idem_created, utcnow, ireq, tasks, execution_vars, versioning_vars, scheduler_vars, service_vars, dynamic_vars, ws_vars >>

\* cleanup_expired: deletes the rows whose expires_at is before now.
Expired(t) ==
    { record \in idempotencykey : record.expires_at # NoExpiry /\ record.expires_at < t }

CleanupExpired ==
    /\ Expired(utcnow) # {}
    /\ idempotencykey' = idempotencykey \ Expired(utcnow)
    /\ UNCHANGED << idem_created, utcnow, ireq, tasks, execution_vars, versioning_vars, scheduler_vars, service_vars, dynamic_vars, ws_vars >>

\* An hour passes.
Tick ==
    /\ utcnow < MaxClock
    /\ utcnow' = utcnow + 1
    /\ UNCHANGED << idempotencykey, idem_created, ireq, tasks, execution_vars, versioning_vars, scheduler_vars, service_vars, dynamic_vars, ws_vars >>

\* One caller: check, then create the record, run, and mark the outcome.
CallerStep ==
    \/ \E s \in Callers : CallCheckIdempotency(s)
    \/ \E s \in Callers, ttl_hours \in 1..MaxTtlHours : CreateIdempotencyRecord(s, ttl_hours)
    \/ \E s \in Callers : MarkCompleted(s, HandlerResult)
    \/ \E s \in Callers : MarkFailed(s)

\* ------------------------------------- WorkflowSchedule (models/schedule.py)
\* The cron expressions of the model: "every n minutes", n in 1..MaxCron.
Crons == 1..MaxCron

\* The instants a cron expression matches.
Satisfies(cron_expression, t) == t % cron_expression = 0

\* calculate_next_run: croniter(cron_expression, base_time).get_next().
CalculateNextRunInclusive(cron_expression, base_time) ==
    ((base_time + cron_expression - 1) \div cron_expression) * cron_expression

CalculateNextRun(cron_expression, base_time) ==
    (base_time \div cron_expression + 1) * cron_expression

\* update_next_run, at the current time.
UpdateNextRun(row) ==
    [row EXCEPT !.next_run = CalculateNextRun(row.cron_expression, utcnow)]

\* ------------------------------------- schedule endpoints (schedules.py)
\* POST /{workflow_id}/schedule: 400 if the workflow has a schedule.
CreateSchedule(cron_expression, enabled) ==
    /\ schedule = NoSchedule
    /\ schedule' = UpdateNextRun([cron_expression |-> cron_expression, enabled |-> enabled,
                                  next_run |-> NoTime, last_run |-> NoTime])
    /\ UNCHANGED << service_vars, dynamic_vars, ws_vars, scheduler, idempotency_vars, versioning_vars, tasks, execution_vars >>

\* PUT /{workflow_id}/schedule with a cron expression: next_run is recalculated.
UpdateScheduleCron(cron_expression) ==
    /\ schedule # NoSchedule
    /\ schedule' = UpdateNextRun([schedule EXCEPT !.cron_expression = cron_expression])
    /\ UNCHANGED << service_vars, dynamic_vars, ws_vars, scheduler, idempotency_vars, versioning_vars, tasks, execution_vars >>

\* PUT /{workflow_id}/schedule with enabled only: next_run is left as it is.
UpdateScheduleEnabled(enabled) ==
    /\ schedule # NoSchedule
    /\ schedule.enabled # enabled
    /\ schedule' = [schedule EXCEPT !.enabled = enabled]
    /\ UNCHANGED << service_vars, dynamic_vars, ws_vars, scheduler, idempotency_vars, versioning_vars, tasks, execution_vars >>

\* ------------------------------------- WorkflowScheduler (scheduler.py)
\* asyncio.sleep(check_interval), check_interval = 60 seconds, in minutes.
CheckInterval == 1

\* The select of a tick at time now: enabled and next_run <= now or null.
IsDueIgnoringNextRun(row, now) ==
    row # NoSchedule /\ row.enabled

IsDue(row, now) ==
    /\ row # NoSchedule
    /\ row.enabled
    /\ (row.next_run <= now \/ row.next_run = NoTime)

Sleeping == [scheduler EXCEPT !.pc = "sleep", !.wake_at = utcnow + CheckInterval,
                              !.due = NoSchedule, !.due_at = NoTime,
                              !.workflow_status = NULL]

\* start(): nothing if already running; else the task is created and runs its
\* first tick at once.
StartScheduler ==
    /\ ~scheduler.running
    /\ scheduler' = [scheduler EXCEPT !.running = TRUE, !.pc = "sleep", !.wake_at = utcnow]
    /\ UNCHANGED << service_vars, dynamic_vars, ws_vars, schedule, idempotency_vars, versioning_vars, tasks, execution_vars >>

\* A tick begins: the loop finds running set, reads the time and selects the
\* due schedules.  With none due it goes back to sleep.
TickSelect ==
    /\ scheduler.pc = "sleep"
    /\ scheduler.running
    /\ utcnow >= scheduler.wake_at
    /\ IF IsDue(schedule, utcnow)
       THEN scheduler' = [scheduler EXCEPT !.pc = "workflow", !.now = utcnow,
                                           !.due = schedule, !.due_at = schedule.next_run]
       ELSE scheduler' = [Sleeping EXCEPT !.now = utcnow]
    /\ UNCHANGED << service_vars, dynamic_vars, ws_vars, schedule, idempotency_vars, versioning_vars, tasks, execution_vars >>

\* _execute_scheduled_workflow: the workflow is selected and its status read;
\* last_run and next_run are set on the schedule object and the commit is
\* issued.  (The workflow of the model is never deleted.)
TickWorkflow ==
    /\ scheduler.pc = "workflow"
    /\ scheduler' = [scheduler EXCEPT
                        !.pc = "commit",
                        !.workflow_status = wf_status,
                        !.due = UpdateNextRun([scheduler.due EXCEPT !.last_run = utcnow])]
    /\ UNCHANGED << service_vars, dynamic_vars, ws_vars, schedule, idempotency_vars, versioning_vars, tasks, execution_vars >>

\* The UPDATE of the commit: the attributes the tick has set.
Persisted ==
    IF schedule = NoSchedule THEN schedule
    ELSE [schedule EXCEPT !.last_run = scheduler.due.last_run,
                          !.next_run = scheduler.due.next_run]

\* The commit returns.  Unless the workflow was read as running, the
\* execution is created; the tick is over and the loop sleeps.
TickCommit ==
    /\ scheduler.pc = "commit"
    /\ schedule' = Persisted
    /\ IF ScheduleSkips(scheduler.workflow_status)
       THEN /\ runner' = runner
            /\ scheduler' = Sleeping
       ELSE /\ HasFreeRunner
            /\ Enqueue("schedule")
            /\ scheduler' = [Sleeping EXCEPT !.fired = Append(@, scheduler.due_at)]
    /\ UNCHANGED << event_vars, service_vars, dynamic_vars, ws_vars, idempotency_vars, versioning_vars, tasks, wf_status, wf_paused_at,
                    task_status, task_retry_count, task_result, co, task_retries_total >>

\* stop(): running is cleared and the task is cancelled at the await it is
\* suspended in; CancelledError is not an Exception, so it ends the task.  A
\* commit that is cancelled has reached the database or has not.
StopScheduler ==
    /\ scheduler.running
    /\ scheduler' = [scheduler EXCEPT !.running = FALSE, !.pc = "stopped",
                                      !.due = NoSchedule, !.due_at = NoTime,
                                      !.workflow_status = NULL]
    /\ \/ schedule' = schedule
       \/ scheduler.pc = "commit" /\ schedule' = Persisted
    /\ UNCHANGED << service_vars, dynamic_vars, ws_vars, idempotency_vars, versioning_vars, tasks, execution_vars >>

\* A minute passes.
MinutePasses ==
    /\ utcnow < MaxMinutes
    /\ utcnow' = utcnow + 1
    /\ UNCHANGED << service_vars, dynamic_vars, ws_vars, idempotencykey, idem_created, ireq, scheduler_vars,
                    versioning_vars, tasks, execution_vars >>

ScheduleStep ==
    \/ \E c \in Crons, e \in BOOLEAN : CreateSchedule(c, e)
    \/ \E c \in Crons : UpdateScheduleCron(c)
    \/ \E e \in BOOLEAN : UpdateScheduleEnabled(e)

SchedulerStep ==
    \/ StartScheduler
    \/ TickSelect
    \/ TickWorkflow
    \/ TickCommit
    \/ StopScheduler

\* ------------------------------- ConnectionManager (websocket_manager.py)
Sockets == DOMAIN websocket

Publishers == DOMAIN publisher

\* list.remove(x): the list without the first x.
Remove(list, x) ==
    LET i == CHOOSE k \in 1..Len(list) : list[k] = x /\ \A j \in 1..(k - 1) : list[j] # x
    IN  SubSeq(list, 1, i - 1) \o SubSeq(list, i + 1, Len(list))

Contains(list, x) == \E k \in 1..Len(list) : list[k] = x

\* websocket_endpoint: connect() accepts the socket and appends it; the
\* handler then waits in receive_text.
Connect(w) ==
    /\ websocket[w] = "new"
    /\ websocket' = [websocket EXCEPT ![w] = "open"]
    /\ active_connections' = Append(active_connections, w)
    /\ UNCHANGED << publisher, service_vars, dynamic_vars, scheduler_vars, idempotency_vars, versioning_vars, tasks,
                    execution_vars >>

\* The client stops reading: a send to it does not return.
PeerStalls(w) ==
    /\ websocket[w] = "open"
    /\ websocket' = [websocket EXCEPT ![w] = "stalled"]
    /\ UNCHANGED << active_connections, publisher, service_vars, dynamic_vars, scheduler_vars, idempotency_vars,
                    versioning_vars, tasks, execution_vars >>

\* The client goes away: sends to the socket raise from now on.
PeerCloses(w) ==
    /\ websocket[w] \in {"open", "stalled"}
    /\ websocket' = [websocket EXCEPT ![w] = "closed"]
    /\ UNCHANGED << active_connections, publisher, service_vars, dynamic_vars, scheduler_vars, idempotency_vars,
                    versioning_vars, tasks, execution_vars >>

\* The handler's receive_text raises WebSocketDisconnect and it calls
\* disconnect(): list.remove, which raises ValueError if the socket is no
\* longer in the list.
Disconnect(w) ==
    /\ websocket[w] = "closed"
    /\ IF Contains(active_connections, w)
       THEN /\ active_connections' = Remove(active_connections, w)
            /\ websocket' = [websocket EXCEPT ![w] = "ended"]
       ELSE /\ active_connections' = active_connections
            /\ websocket' = [websocket EXCEPT ![w] = "ValueError"]
    /\ UNCHANGED << publisher, service_vars, dynamic_vars, scheduler_vars, idempotency_vars, versioning_vars, tasks,
                    execution_vars >>

\* The clean-up loop of broadcast over its disconnected list: each remove
\* in turn, ending at the first ValueError.
RECURSIVE CleanUp(_, _)
CleanUp(list, disconnected) ==
    IF disconnected = << >>
    THEN [connections |-> list, raised |-> NULL]
    ELSE IF ~Contains(list, Head(disconnected))
    THEN [connections |-> list, raised |-> "ValueError"]
    ELSE CleanUp(Remove(list, Head(disconnected)), Tail(disconnected))

\* The for loop asks its iterator for the next connection: the element at
\* index of the list as it is now, or the end of the loop, followed at once
\* by the clean-up.
Iterate(b, index, disconnected, audience, sent) ==
    IF index < Len(active_connections)
    THEN /\ publisher' = [publisher EXCEPT ![b] =
                [pc |-> "send", connection |-> active_connections[index + 1],
                 index |-> index + 1, disconnected |-> disconnected, raised |-> NULL,
                 audience |-> audience, sent |-> sent]]
         /\ active_connections' = active_connections
    ELSE LET res == CleanUp(active_connections, disconnected)
         IN  /\ publisher' = [publisher EXCEPT ![b] =
                    [IdlePublisher EXCEPT !.raised = res.raised,
                                          !.audience = audience, !.sent = sent]]
             /\ active_connections' = res.connections

\* A coroutine calls broadcast(message).
Broadcast(b) ==
    /\ publisher[b].pc = "idle"
    /\ Iterate(b, 0, << >>, active_connections, << >>)
    /\ UNCHANGED << websocket, service_vars, dynamic_vars, scheduler_vars, idempotency_vars, versioning_vars, tasks,
                    execution_vars >>

\* Whether send_text on a socket raises: the peer is gone.
SendRaises(state) == state \in {"closed", "ended", "ValueError"}

\* await connection.send_text returns or raises; the loop goes on.  A send
\* to a client that does not read stays pending.
SendReturns(b) ==
    /\ publisher[b].pc = "send"
    /\ websocket[publisher[b].connection] # "stalled"
    /\ IF SendRaises(websocket[publisher[b].connection])
       THEN Iterate(b, publisher[b].index,
                    Append(publisher[b].disconnected, publisher[b].connection),
                    publisher[b].audience, publisher[b].sent)
       ELSE Iterate(b, publisher[b].index, publisher[b].disconnected,
                    publisher[b].audience,
                    Append(publisher[b].sent, publisher[b].connection))
    /\ UNCHANGED << websocket, service_vars, dynamic_vars, scheduler_vars, idempotency_vars, versioning_vars, tasks,
                    execution_vars >>

SocketStep ==
    \/ \E w \in Sockets : Connect(w)
    \/ \E w \in Sockets : PeerStalls(w)
    \/ \E w \in Sockets : PeerCloses(w)
    \/ \E w \in Sockets : Disconnect(w)

PublisherStep ==
    \/ \E b \in Publishers : Broadcast(b)
    \/ \E b \in Publishers : SendReturns(b)

\* ----------------------------- DynamicTaskService (dynamic_task_service.py)
GroupExecs == DOMAIN group_exec

GroupIds == 1..Len(dynamictaskgroup)

\* The input arrays: n opaque items.
ItemLists == { [i \in 1..n |-> "item"] : n \in 0..MaxItems }

\* create_map_tasks: a map group with total_tasks = len(items).
CreateMapTasks(items) ==
    /\ Len(dynamictaskgroup) < MaxGroups
    /\ dynamictaskgroup' = Append(dynamictaskgroup, DynamicTaskGroup("map", items, Len(items)))
    /\ UNCHANGED << group_exec, service_vars, ws_vars, scheduler_vars, idempotency_vars, versioning_vars,
                    tasks, execution_vars >>

\* create_reduce_task: a reduce group over map_results with total_tasks = 1.
CreateReduceTask(map_results) ==
    /\ Len(dynamictaskgroup) < MaxGroups
    /\ dynamictaskgroup' = Append(dynamictaskgroup, DynamicTaskGroup("reduce", map_results, 1))
    /\ UNCHANGED << group_exec, service_vars, ws_vars, scheduler_vars, idempotency_vars, versioning_vars,
                    tasks, execution_vars >>

\* session.commit(): the UPDATE sets the attributes whose value differs from
\* the one the session loaded or last flushed.
Flush(row, loaded, task_group) ==
    [f \in DOMAIN row |-> IF task_group[f] # loaded[f] THEN task_group[f] ELSE row[f]]

\* What a handler or reducer call ends with: a returned value or a raised
\* Exception with a message.
Returned(value) == [done |-> TRUE, raised |-> FALSE, value |-> value]

Raised(message) == [done |-> TRUE, raised |-> TRUE, value |-> message]

Pending == [done |-> FALSE, raised |-> FALSE, value |-> NULL]

HandlerOutcomes == { Returned("v1"), Returned("v2"), Raised("boom") }

\* isinstance(r, Exception)
IsException(r) == r.raised

\* str(r) if isinstance(r, Exception) else r
Entry(r) == r.value

\* execute_map_tasks / execute_reduce_task, lines 82-102 and 176-187: select the
\* group, status running, commit; a map group hands one awaitable per item to
\* gather.
ExecuteStart(e, id) ==
    /\ group_exec[e].pc = "idle"
    /\ id \in GroupIds
    /\ LET loaded == dynamictaskgroup[id]
           task_group == [loaded EXCEPT !.status = "running"]
       IN  /\ dynamictaskgroup' = [dynamictaskgroup EXCEPT ![id] = Flush(@, loaded, task_group)]
           /\ group_exec' = [group_exec EXCEPT ![e] =
                  [pc |-> IF loaded.task_type = "map" THEN "gather" ELSE "reduce",
                   id |-> id, task_group |-> task_group, loaded |-> task_group,
                   returned |-> IF loaded.task_type = "map"
                                THEN [i \in 1..Len(loaded.items) |-> Pending]
                                ELSE << >>]]
    /\ UNCHANGED << service_vars, ws_vars, scheduler_vars, idempotency_vars, versioning_vars, tasks,
                    execution_vars >>

\* One of the awaitables of gather ends: executor_func returns or raises.
HandlerEnds(e, i, outcome) ==
    /\ group_exec[e].pc = "gather"
    /\ i \in 1..Len(group_exec[e].returned)
    /\ ~group_exec[e].returned[i].done
    /\ group_exec' = [group_exec EXCEPT ![e].returned[i] = outcome]
    /\ UNCHANGED << dynamictaskgroup, service_vars, ws_vars, scheduler_vars, idempotency_vars,
                    versioning_vars, tasks, execution_vars >>

Count(results, raised) ==
    Cardinality({ i \in 1..Len(results) : IsException(results[i]) = raised })

\* Line 113.
MapStatus(failed_tasks, completed_tasks) ==
    IF failed_tasks = 0 THEN "completed" ELSE "failed"

\* Lines 107-113: the counters, the results and the final status of a map group.
MapUpdate(task_group, results) ==
    [task_group EXCEPT
        !.completed_tasks = Count(results, FALSE),
        !.failed_tasks = Count(results, TRUE),
        !.results = ResultList([i \in 1..Len(results) |-> Entry(results[i])]),
        !.status = MapStatus(Count(results, TRUE), Count(results, FALSE))]

\* Lines 189-201: the try block of execute_reduce_task and its except clause.
ReduceUpdate(task_group, result) ==
    IF IsException(result)
    THEN [task_group EXCEPT !.failed_tasks = 1, !.status = "failed",
                            !.results = ResultList(<< Entry(result) >>)]
    ELSE [task_group EXCEPT !.results = ResultList(<< Entry(result) >>),
                            !.completed_tasks = 1, !.status = "completed"]

\* The end of an execution, lines 116-117 and 204-205: commit.
Commit(e, task_group) ==
    /\ dynamictaskgroup' = [dynamictaskgroup EXCEPT ![group_exec[e].id] =
            Flush(@, group_exec[e].loaded, task_group)]
    /\ group_exec' = [group_exec EXCEPT ![e] =
            [@ EXCEPT !.pc = "idle", !.task_group = task_group, !.loaded = task_group]]

\* gather returns once every awaitable has ended (return_exceptions=True).
MapGathered(e) ==
    /\ group_exec[e].pc = "gather"
    /\ \A i \in 1..Len(group_exec[e].returned) : group_exec[e].returned[i].done
    /\ Commit(e, MapUpdate(group_exec[e].task_group, group_exec[e].returned))
    /\ UNCHANGED << service_vars, ws_vars, scheduler_vars, idempotency_vars, versioning_vars, tasks,
                    execution_vars >>

\* reducer_func returns or raises.
ReducerEnds(e, result) ==
    /\ group_exec[e].pc = "reduce"
    /\ Commit(e, ReduceUpdate(group_exec[e].task_group, result))
    /\ UNCHANGED << service_vars, ws_vars, scheduler_vars, idempotency_vars, versioning_vars, tasks,
                    execution_vars >>

GroupStep ==
    \/ \E items \in ItemLists : CreateMapTasks(items)
    \/ \E id \in GroupIds :
          /\ ~dynamictaskgroup[id].results.is_none
          /\ CreateReduceTask(dynamictaskgroup[id].results.list)
    \/ \E e \in GroupExecs, id \in GroupIds : ExecuteStart(e, id)
    \/ \E e \in GroupExecs, i \in 1..MaxItems, outcome \in HandlerOutcomes :
          HandlerEnds(e, i, outcome)
    \/ \E e \in GroupExecs : MapGathered(e)
    \/ \E e \in GroupExecs, result \in HandlerOutcomes : ReducerEnds(e, result)

\* ------------------------------------------ validator inputs (dag_executor.py)
\* The names tasks are given, in order; the one after the last task of an
\* input names no task of it.
TaskNames == << "a", "b", "c", "d", "e", "f" >>

\* The strictly increasing index sequences of length at most d over 1..u: the
\* dependency lists over u names, without repetition.
IndexLists(u, d) ==
    { s \in UNION { [1..k -> 1..u] : k \in 0..d } :
        \A i \in 1..(Len(s) - 1) : s[i] < s[i + 1] }

DependencyLists(u, d) ==
    { [i \in 1..Len(s) |-> TaskNames[s[i]]] : s \in IndexLists(u, d) }

\* The request body's task list (WorkflowCreate.tasks) grows by one task
\* definition, up to n tasks: the next name, with at most d dependencies among
\* the n names and one name that is no task.
AppendTask(n, d) ==
    /\ execution_levels = NotSorted
    /\ create_req = IdleCreate
    /\ Len(workflow_data) < n
    /\ \E deps \in DependencyLists(n + 1, d) :
           workflow_data' = Append(workflow_data,
                                   TaskDef(TaskNames[Len(workflow_data) + 1], deps, 0))
    /\ UNCHANGED << execution_levels, create_req, repository, retry_policy, delays,
                    dynamic_vars, ws_vars, scheduler_vars, idempotency_vars,
                    versioning_vars, tasks, execution_vars >>

\* DAGExecutor.topological_sort(tasks) is called.
Sort ==
    /\ execution_levels = NotSorted
    /\ execution_levels' = TopologicalSort(workflow_data)
    /\ UNCHANGED << workflow_data, create_req, repository, retry_policy, delays,
                    dynamic_vars, ws_vars, scheduler_vars, idempotency_vars,
                    versioning_vars, tasks, execution_vars >>

\* -------------------------------------------------------- workflow service
\* WorkflowService.create_workflow(workflow_data), one step per commit.  The
\* task objects are built with workflow_id only and handed to no session before
\* create_many, so a rejected request has stored nothing but the workflow row.
CreateUnchanged ==
    UNCHANGED << workflow_data, retry_policy, delays, dynamic_vars, ws_vars,
                 scheduler_vars, idempotency_vars, versioning_vars, tasks,
                 execution_vars >>

\* workflow_repo.create(workflow): the row is added and committed.
CreateWorkflow ==
    /\ create_req.pc = "idle"
    /\ create_req' = [create_req EXCEPT !.pc = "validate"]
    /\ repository' = [repository EXCEPT !.workflow = TRUE]
    /\ UNCHANGED execution_levels
    /\ CreateUnchanged

\* DAGExecutor.validate_dag(tasks): the sort decides which branch is taken.
ValidateDag ==
    /\ create_req.pc = "validate"
    /\ execution_levels' = TopologicalSort(workflow_data)
    /\ create_req' = [create_req EXCEPT
                        !.pc = IF execution_levels'.ok THEN "create_many" ELSE "rollback"]
    /\ UNCHANGED repository
    /\ CreateUnchanged

\* The except branch without workflow_repo.delete.
RollbackKeepsWorkflow ==
    /\ create_req.pc = "rollback"
    /\ create_req' = [pc |-> "done", raised |-> "DAGValidationError"]
    /\ UNCHANGED << repository, execution_levels >>
    /\ CreateUnchanged

\* except ValueError: workflow_repo.delete(workflow.id) deletes the row and
\* commits, then DAGValidationError is raised.
Rollback ==
    /\ create_req.pc = "rollback"
    /\ repository' = [repository EXCEPT !.workflow = FALSE]
    /\ create_req' = [pc |-> "done", raised |-> "DAGValidationError"]
    /\ UNCHANGED execution_levels
    /\ CreateUnchanged

\* task_repo.create_many(tasks): the tasks are added and committed, and the
\* workflow is returned.
CreateMany ==
    /\ create_req.pc = "create_many"
    /\ repository' = [repository EXCEPT !.tasks = workflow_data]
    /\ create_req' = [pc |-> "done", raised |-> NULL]
    /\ UNCHANGED execution_levels
    /\ CreateUnchanged

\* ------------------------------------------------------------ retry policy
RECURSIVE Pow(_, _)
Pow(b, e) == IF e = 0 THEN 1 ELSE b * Pow(b, e - 1)

Min(x, y) == IF x <= y THEN x ELSE y

\* calculate_delay without the min with max_delay.
calculate_delay_uncapped(policy, attempt) ==
    IF attempt >= policy.max_retries THEN 0
    ELSE policy.initial_delay * Pow(policy.backoff_multiplier, attempt)

\* RetryPolicy.calculate_delay(attempt) with jitter disabled, whole seconds.
calculate_delay(policy, attempt) ==
    IF attempt >= policy.max_retries THEN 0
    ELSE Min(policy.initial_delay * Pow(policy.backoff_multiplier, attempt),
             policy.max_delay)

\* The policies of SpecDelay: Field constraints ge=0, gt=0, gt=0, gt=1.
RetryPolicies ==
    [max_retries : 0..MaxPolicyRetries, initial_delay : 1..MaxInitialDelay,
     max_delay : 1..MaxMaxDelay, backoff_multiplier : 2..MaxBackoffMultiplier]

\* calculate_delay is called for the next attempt number; delays[n + 1] is
\* the value returned for attempt n.
CalculateDelay ==
    /\ Len(delays) < MaxAttempts
    /\ delays' = Append(delays, calculate_delay(retry_policy, Len(delays)))
    /\ UNCHANGED << workflow_data, execution_levels, create_req, repository,
                    retry_policy, dynamic_vars, ws_vars, scheduler_vars,
                    idempotency_vars, versioning_vars, tasks, execution_vars >>

\* ------------------------------------------------------------ specification
RunnerStep ==
    \/ \E r \in Runners : RunnerStart(r)
    \/ \E r \in Runners : RunnerRefresh(r)
    \/ \E r \in Runners : RunnerCheck(r)
    \/ \E r \in Runners : RunnerGather(r)

TaskStep ==
    \/ \E r \in Runners : \E n \in Names(tasks) : TaskAttempt(r, n)
    \/ \E r \in Runners : \E n \in Names(tasks) : TaskExec(r, n)
    \/ \E r \in Runners : \E n \in Names(tasks) : \E o \in Outcomes : TaskAction(r, n, o)

\* The workflow's lifecycle: every way of enqueueing an execution, the
\* controller, the runners.
Next ==
    \/ PauseWorkflow
    \/ ResumeWorkflow
    \/ CancelWorkflow
    \/ ExecuteWorkflow
    \/ ExecuteScheduledWorkflow
    \/ RunnerStep
    \/ TaskStep

Spec == Init /\ [][Next]_vars

\* The lifecycle with every execution starting while all tasks are pending.
StartsPending ==
    \A r \in Runners :
        (runner[r].pc = "queued" /\ runner'[r].pc # "queued")
        => \A n \in Names(tasks) : task_status[n] = "pending"

NextPending == Next /\ StartsPending

SpecPending == Init /\ [][NextPending]_vars

\* Executions of a workflow with a parallel layer, started through the
\* execute endpoint, with pause and cancel calls arriving at any time.
NextLayer ==
    \/ PauseWorkflow
    \/ CancelWorkflow
    \/ ExecuteWorkflow
    \/ RunnerStep
    \/ TaskStep

SpecLayer == InitLayer /\ [][NextLayer]_vars

\* The controller's calls around the executions of the chain workflow.
SpecControl == InitControl /\ [][Next]_vars

\* The versioning service: snapshots and rollbacks of a workflow that is
\* edited in between, the requests interleaving at their database calls.
InitVersionWith(k) ==
    /\ InitWebsocket(0, 0)
    /\ InitDynamic(0)
    /\ InitServices
    /\ InitScheduler
    /\ tasks \in WorkflowDefs
    /\ wf_status = "pending"
    /\ wf_event = NULL
    /\ wf_paused_at = NULL
    /\ task_status = [n \in Names(tasks) |-> "pending"]
    /\ task_event = [n \in Names(tasks) |-> NULL]
    /\ task_retry_count = [n \in Names(tasks) |-> 0]
    /\ task_retries_total = [n \in Names(tasks) |-> 0]
    /\ task_result = [n \in Names(tasks) |-> NoResult]
    /\ runner = << >>
    /\ co = << >>
    /\ InitVersioning(k)
    /\ InitIdempotency(0)

InitVersion == InitVersionWith(MaxVersionRequests)

NextVersion ==
    \/ \E d \in WorkflowEdits : UpdateWorkflow(d)
    \/ VersionStep
    \/ RollbackStep

SpecVersion == InitVersion /\ [][NextVersion]_vars

\* Snapshots only, of a workflow that is edited in between.
InitSnapshot == InitVersionWith(MaxSnapshotRequests)

NextSnapshot ==
    \/ \E d \in WorkflowEdits : UpdateWorkflow(d)
    \/ VersionStep

SpecSnapshot == InitSnapshot /\ [][NextSnapshot]_vars

\* The scheduler: its ticks, start and stop on a schedule that is created
\* once, the clock, and the executions the ticks enqueue.
InitSchedule == InitWith(ScheduledWorkflowDefs, MaxScheduledRunners)

NextSchedule ==
    \/ \E c \in Crons, e \in BOOLEAN : CreateSchedule(c, e)
    \/ SchedulerStep
    \/ MinutePasses
    \/ RunnerStep
    \/ TaskStep

SpecSchedule == InitSchedule /\ [][NextSchedule]_vars

\* The scheduler's ticks and the schedule endpoints; the executions that the
\* ticks enqueue have not started.
InitTick == InitWith(ScheduledWorkflowDefs, MaxScheduledRunners)

NextTick ==
    \/ ScheduleStep
    \/ SchedulerStep
    \/ MinutePasses

SpecTick == InitTick /\ [][NextTick]_vars

\* No workflow is executed, versioned, scheduled or broadcast.
InitQuiet ==
    /\ tasks \in WorkflowDefs
    /\ wf_status = "pending"
    /\ wf_event = NULL
    /\ wf_paused_at = NULL
    /\ task_status = [n \in Names(tasks) |-> "pending"]
    /\ task_event = [n \in Names(tasks) |-> NULL]
    /\ task_retry_count = [n \in Names(tasks) |-> 0]
    /\ task_retries_total = [n \in Names(tasks) |-> 0]
    /\ task_result = [n \in Names(tasks) |-> NoResult]
    /\ runner = << >>
    /\ co = << >>
    /\ InitVersioning(0)
    /\ InitIdempotency(0)
    /\ InitScheduler
    /\ InitWebsocket(0, 0)
    /\ InitDynamic(0)

\* The validator as a function: any task list, sorted once.
InitSort ==
    /\ InitQuiet
    /\ workflow_data = << >>
    /\ execution_levels = NotSorted
    /\ create_req = IdleCreate
    /\ repository = EmptyRepository
    /\ retry_policy = DefaultRetryPolicy
    /\ delays = << >>

NextSort ==
    \/ AppendTask(MaxSortTasks, MaxSortDependencies)
    \/ Sort

SpecSort == InitSort /\ [][NextSort]_vars

\* One create_workflow request with any task list.
InitCreate == InitQuiet /\ InitServices

NextCreate ==
    \/ AppendTask(MaxCreateTasks, MaxSortDependencies)
    \/ CreateWorkflow
    \/ ValidateDag
    \/ Rollback
    \/ CreateMany

SpecCreate == InitCreate /\ [][NextCreate]_vars

\* The delay function: any policy, asked for attempts 0, 1, 2, ...
InitDelay ==
    /\ InitQuiet
    /\ workflow_data = << >>
    /\ execution_levels = NotSorted
    /\ create_req = IdleCreate
    /\ repository = EmptyRepository
    /\ retry_policy \in RetryPolicies
    /\ delays = << >>

NextDelay == CalculateDelay

SpecDelay == InitDelay /\ [][NextDelay]_vars

\* The dynamic task service: groups are created and executed, one execution
\* at a time per session.
InitGroups ==
    /\ tasks \in WorkflowDefs
    /\ wf_status = "pending"
    /\ wf_event = NULL
    /\ wf_paused_at = NULL
    /\ task_status = [n \in Names(tasks) |-> "pending"]
    /\ task_event = [n \in Names(tasks) |-> NULL]
    /\ task_retry_count = [n \in Names(tasks) |-> 0]
    /\ task_retries_total = [n \in Names(tasks) |-> 0]
    /\ task_result = [n \in Names(tasks) |-> NoResult]
    /\ runner = << >>
    /\ co = << >>
    /\ InitVersioning(0)
    /\ InitIdempotency(0)
    /\ InitScheduler
    /\ InitWebsocket(0, 0)
    /\ InitDynamic(MaxGroupExecs)
    /\ InitServices

NextGroups == GroupStep

SpecGroups == InitGroups /\ [][NextGroups]_vars

\* The event bus: sockets that connect, stall and go away, and coroutines
\* that broadcast concurrently.
InitBroadcast ==
    /\ tasks \in WorkflowDefs
    /\ wf_status = "pending"
    /\ wf_event = NULL
    /\ wf_paused_at = NULL
    /\ task_status = [n \in Names(tasks) |-> "pending"]
    /\ task_event = [n \in Names(tasks) |-> NULL]
    /\ task_retry_count = [n \in Names(tasks) |-> 0]
    /\ task_retries_total = [n \in Names(tasks) |-> 0]
    /\ task_result = [n \in Names(tasks) |-> NoResult]
    /\ runner = << >>
    /\ co = << >>
    /\ InitVersioning(0)
    /\ InitIdempotency(0)
    /\ InitScheduler
    /\ InitWebsocket(MaxSockets, MaxPublishers)
    /\ InitDynamic(0)
    /\ InitServices

NextBroadcast ==
    \/ SocketStep
    \/ PublisherStep

SpecBroadcast == InitBroadcast /\ [][NextBroadcast]_vars

\* The event loop resumes a coroutine whose send has returned.
SpecBroadcastFair ==
    SpecBroadcast /\ \A b \in 1..MaxPublishers : WF_vars(SendReturns(b))

\* The idempotency service: callers with the same (workflow_id, task_name,
\* key), interleaving at their database calls, the sweeper and the clock.
InitIdempotentWith(k) ==
    /\ InitWebsocket(0, 0)
    /\ InitDynamic(0)
    /\ InitServices
    /\ InitScheduler
    /\ tasks \in WorkflowDefs
    /\ wf_status = "pending"
    /\ wf_event = NULL
    /\ wf_paused_at = NULL
    /\ task_status = [n \in Names(tasks) |-> "pending"]
    /\ task_event = [n \in Names(tasks) |-> NULL]
    /\ task_retry_count = [n \in Names(tasks) |-> 0]
    /\ task_retries_total = [n \in Names(tasks) |-> 0]
    /\ task_result = [n \in Names(tasks) |-> NoResult]
    /\ runner = << >>
    /\ co = << >>
    /\ InitVersioning(0)
    /\ InitIdempotency(k)

InitIdempotent == InitIdempotentWith(MaxCallers)

NextIdempotent ==
    \/ CallerStep
    \/ CleanupExpired
    \/ Tick

SpecIdempotent == InitIdempotent /\ [][NextIdempotent]_vars

\* One caller at a time, the sweeper and the clock.
InitLookup == InitIdempotentWith(MaxLookupCallers)

SpecLookup == InitLookup /\ [][NextIdempotent]_vars

\* The service's methods as its interface offers them: besides the caller,
\* mark_completed and mark_failed for the id of any stored row.
NextService ==
    \/ NextIdempotent
    \/ \E id \in 1..MaxRecords, result \in Results : MarkCompletedById(id, result)
    \/ \E id \in 1..MaxRecords : MarkFailedById(id)

SpecService == InitLookup /\ [][NextService]_vars

\* ================================================================== claims
Active == {"attempt", "exec", "action"}

\* The coroutine of task n in execution r has been created by gather.
Started(r, n) == co[r][n].pc # "idle"

\* Task n has settled in execution r: completed, or failed with its retry
\* budget exhausted.
Settled(r, n) ==
    \/ co[r][n].pc = "done" /\ co[r][n].status = "completed"
    \/ /\ co[r][n].pc = "raised"
       /\ co[r][n].status = "failed"
       /\ co[r][n].attempt >= MaxRetries(n)

\* The index of the layer of task n in the execution order that execution r
\* has computed.
LayerOf(r, n) ==
    LET levels == runner[r].execution_levels.levels
    IN  CHOOSE k \in 1..Len(levels) : SeqContains(levels[k], n)

\* C1: within one execution, every task of layer k has settled before any task
\* of layer k+1 starts.
C1_LayerOrder ==
    \A r \in Runners : \A n1, n2 \in Names(tasks) :
        (Started(r, n2) /\ LayerOf(r, n2) = LayerOf(r, n1) + 1) => Settled(r, n1)

\* A task of the second layer has started.
C1_Witness ==
    \E r \in Runners : \E n \in Names(tasks) : Started(r, n) /\ LayerOf(r, n) = 2

\* C2: a runner never launches the tasks of a layer while the workflow's
\* persisted status is paused.
C2_PausedStartsNoLayer ==
    [][\A r \in Runners :
         (runner[r].pc = "check" /\ runner'[r].pc = "gather") => wf_status # "paused"]_vars

\* C3: once the persisted status is cancelled, no step sets it to pending,
\* running or paused.
C3_CancelledStaysTerminal ==
    [][wf_status = "cancelled" => wf_status' \notin {"pending", "running", "paused"}]_vars

\* C4: a runner that has re-read the status paused or cancelled before a layer
\* publishes that status and returns: it starts no task and leaves the
\* workflow status as it is.
C4_StopsOnPausedOrCancelled ==
    [][\A r \in Runners :
         (/\ runner[r].pc = "check"
          /\ runner[r].status \in {"paused", "cancelled"}
          /\ runner'[r] # runner[r])
         => /\ runner'[r].pc = "halted"
            /\ runner'[r].events = Append(runner[r].events, runner[r].status)
            /\ co'[r] = co[r]
            /\ wf_status' = wf_status]_vars

\* C5: when a task of a layer fails terminally, the execution marks the
\* workflow failed and stops, it never starts a task of a later layer, and
\* the step that fails the workflow leaves the other coroutines of the layer
\* untouched, so that they run on.
C5_FailureStopsLaterLayers ==
    /\ [](\A r \in Runners : \A n1, n2 \in Names(tasks) :
            (co[r][n1].pc = "raised" /\ LayerOf(r, n2) > LayerOf(r, n1)) => ~Started(r, n2))
    /\ [][\A r \in Runners :
            (runner[r].pc = "gather" /\ GatherRaises(r) /\ runner'[r] # runner[r])
            => /\ runner'[r].pc = "failed"
               /\ wf_status' = "failed"
               /\ co' = co]_vars
    /\ [][\A r \in Runners : \A n \in Names(tasks) :
            (runner[r].pc = "failed" /\ co[r][n].pc \in Active)
            => co'[r][n].pc \in Active \cup {"done", "raised"}]_vars

\* The workflow has been marked failed by an execution one of whose other
\* tasks is still running its action.
C5_Witness ==
    \E r \in Runners : \E n1, n2 \in Names(tasks) :
        /\ runner[r].pc = "failed"
        /\ wf_status = "failed"
        /\ co[r][n1].pc = "raised"
        /\ LayerOf(r, n1) = LayerOf(r, n2)
        /\ co[r][n2].pc = "action"

\* C6: with max_retries = m the action runs at most m+1 times; a failed
\* attempt n is followed by attempt n+1 iff n < m; the task is persisted as
\* failed and the error raised only when attempt m fails; the first success
\* ends the loop with status completed.
C6_RetryLoop ==
    /\ [](\A r \in Runners : \A n \in Names(tasks) :
            LET c == co[r][n]
                m == MaxRetries(n)
            IN  /\ c.runs <= m + 1
                /\ c.attempt <= m
                /\ c.pc \in Active => (c.fails = c.attempt /\ c.runs = c.attempt)
                /\ c.pc = "raised" =>
                      (c.attempt = m /\ c.fails = m + 1 /\ c.runs = m + 1
                       /\ c.status = "failed")
                /\ c.pc = "done" =>
                      (c.status = "completed" /\ c.fails = c.attempt
                       /\ c.runs = c.fails + 1))
    /\ [][\A r \in Runners : \A n \in Names(tasks) :
            /\ (co[r][n].pc = "action" /\ co'[r][n].pc = "raised")
               => (task_status'[n] = "failed" /\ task_result'[n].error # NULL)
            /\ (co[r][n].pc = "action" /\ co'[r][n].pc = "done")
               => (task_status'[n] = "completed" /\ task_result'[n] = SuccessResult)]_vars

\* A task with a retry budget has exhausted it.
C6_Witness ==
    \E r \in Runners : \E n \in Names(tasks) :
        MaxRetries(n) >= 1 /\ co[r][n].pc = "raised" /\ co[r][n].runs = MaxRetries(n) + 1

\* C7: a task whose action fails k times and then succeeds ends completed with
\* retry_count = k after k+1 running events; retry_count stays within
\* 0..max_retries.
C7_RetryCount ==
    /\ \A n \in Names(tasks) :
          task_retry_count[n] >= 0 /\ task_retry_count[n] <= MaxRetries(n)
    /\ \A r \in Runners : \A n \in Names(tasks) :
          co[r][n].pc = "done" =>
              /\ co[r][n].status = "completed"
              /\ co[r][n].fails <= MaxRetries(n)
              /\ co[r][n].retry_count = co[r][n].fails
              /\ co[r][n].running_events = co[r][n].fails + 1

\* A task has completed after one failed attempt.
C7_Witness ==
    \E r \in Runners : \E n \in Names(tasks) :
        co[r][n].pc = "done" /\ co[r][n].fails = 1 /\ task_status[n] = "completed"

\* C8: an execution re-queued by resume, with no other execution in flight,
\* never runs a task whose persisted status is completed, and leaves that
\* task's status and result as stored.
C8_ResumeSkipsCompleted ==
    [][\A r \in Runners : \A n \in Names(tasks) :
         (/\ runner[r].origin = "resume"
          /\ \A q \in Runners \ {r} :
                runner[q].pc \in {"free", "halted", "completed", "failed"}
          /\ task_status[n] = "completed"
          /\ co'[r][n] # co[r][n])
         => (co'[r][n].pc = "done" /\ co'[r][n].runs = co[r][n].runs
             /\ co'[r][n].running_events = co[r][n].running_events
             /\ task_status'[n] = task_status[n]
             /\ task_result'[n] = task_result[n])]_vars

\* C9: pause_workflow on a pending or running workflow sets it paused and
\* records paused_at; on a completed, failed or cancelled workflow it fails
\* and changes nothing.
C9_PauseFromActiveOrTerminal ==
    LET res == PauseResult(wf_status, wf_paused_at)
    IN  /\ wf_status \in {"pending", "running"} =>
              (res.error = NULL /\ res.status = "paused" /\ res.paused_at # NULL)
        /\ wf_status \in {"completed", "failed", "cancelled"} =>
              res = Outcome(wf_status, wf_paused_at, "ValueError")

\* C10: pause_workflow on a paused workflow succeeds and changes nothing.
C10_PauseWhenPausedIsNoop ==
    wf_status = "paused" =>
        PauseResult(wf_status, wf_paused_at) = Outcome(wf_status, wf_paused_at, NULL)

\* C11: resume_workflow succeeds only on a paused workflow, which becomes
\* pending with paused_at cleared; on any other status it fails and changes
\* nothing.  A step that queues the resumed execution is such a success.
C11_ResumeOnlyFromPaused ==
    /\ [](LET res == ResumeResult(wf_status, wf_paused_at)
          IN  IF wf_status = "paused"
              THEN res = Outcome("pending", NULL, NULL)
              ELSE res = Outcome(wf_status, wf_paused_at, "ValueError"))
    /\ [][\A r \in Runners :
            (runner[r].pc = "free" /\ runner'[r].origin = "resume")
            => (wf_status = "paused" /\ wf_status' = "pending"
                /\ wf_paused_at' = NULL)]_vars

\* A paused workflow has been resumed: it is pending, paused_at is cleared and
\* its execution is queued.
C11_Witness ==
    /\ wf_status = "pending"
    /\ wf_paused_at = NULL
    /\ \E r \in Runners : runner[r].pc = "queued" /\ runner[r].origin = "resume"

\* C12: cancel_workflow sets a pending, running or paused workflow cancelled;
\* on a completed, failed or cancelled workflow it fails and changes nothing.
C12_CancelFromNonTerminal ==
    /\ [](LET res == CancelResult(wf_status, wf_paused_at)
          IN  IF wf_status \in {"pending", "running", "paused"}
              THEN res.error = NULL /\ res.status = "cancelled"
              ELSE res = Outcome(wf_status, wf_paused_at, "ValueError"))
    /\ [][(wf_status # "cancelled" /\ wf_status' = "cancelled")
            => wf_status \in {"pending", "running", "paused"}]_vars

\* A paused workflow has been cancelled (paused_at still tells of the pause).
C12_Witness ==
    wf_status = "cancelled" /\ wf_paused_at # NULL

\* C13: paused_at is set exactly when the status is paused.
C13_PausedAtIffPaused ==
    (wf_paused_at # NULL) <=> (wf_status = "paused")

\* C14: at most one version of the workflow is active.
C14_AtMostOneActive ==
    Cardinality({ i \in 1..Len(versions) : versions[i].is_active }) <= 1

\* C15: a create_version that finds the latest stored version with the
\* checksum of the workflow's definition inserts no version and no change log
\* row and returns that latest version.
C15_SnapshotIdempotent ==
    [][\A s \in Requests :
         (/\ vreq[s].pc = "select"
          /\ vreq[s].op = "create"
          /\ vreq'[s] # vreq[s]
          /\ versions # << >>
          /\ \A i \in LatestRows : versions[i].checksum = Checksum(vreq[s].workflow))
         => (/\ versions' = versions
             /\ changelog' = changelog
             /\ vreq'[s].pc = "idle"
             /\ vreq'[s].returned = "existing"
             /\ vreq'[s].new_version \in LatestRows)]_vars

\* A snapshot of an unchanged workflow has returned the latest version.
C15_Witness ==
    \E s \in Requests :
        /\ vreq[s].pc = "idle"
        /\ vreq[s].op = "create"
        /\ vreq[s].returned = "existing"
        /\ vreq[s].new_version \in LatestRows
        /\ Len(changelog) = Len(versions)

\* C16: when a rollback ends, the workflow's name, description and task list
\* are those stored in the target version.
C16_RollbackRestoresDefinition ==
    [][\A s \in Requests :
         (vreq[s].pc = "log" /\ vreq'[s].pc = "idle")
         => WorkflowData(wf_name', wf_description', tasks')
              = versions[vreq[s].target].workflow_data]_vars

\* C17: when a rollback ends it has created a version numbered one above the
\* latest it found, whose change_summary names the rollback, and it appends a
\* rolled_back change log row from that latest to the new version.
C17_RollbackCreatesVersion ==
    [][\A s \in Requests :
         (vreq[s].pc = "log" /\ vreq'[s].pc = "idle")
         => LET new    == versions[vreq[s].new_version]
                latest == versions[vreq[s].latest]
                target == versions[vreq[s].target]
            IN  /\ vreq[s].returned = "new"
                /\ new.version_number = latest.version_number + 1
                /\ new.change_summary = RollbackSummary(target.version_number)
                /\ changelog' = Append(changelog,
                       [from_version |-> latest.version_number,
                        to_version |-> new.version_number,
                        change_type |-> "rolled_back"])]_vars

\* C18: every version is numbered one above the versions stored before it,
\* starting at 1, so no two versions share a number.
C18_VersionNumbersIncrease ==
    \A i \in 1..Len(versions) : versions[i].version_number = i

\* C19: check_idempotency answers not-duplicate, with no record, when there
\* is no row or the row's expires_at is past; duplicate with the row when the
\* row is processing or completed; not-duplicate when the row is failed.  A
\* caller that got not-duplicate goes on to create, a duplicate ends the call.
C19_CheckIdempotencyOutcome ==
    /\ [](\A existing \in idempotencykey \cup { NoRecord } :
            LET res == CheckIdempotency(existing, utcnow)
                absent == \/ existing = NoRecord
                          \/ existing.expires_at # NoExpiry /\ utcnow > existing.expires_at
            IN  /\ absent => (~res.is_duplicate /\ res.record = NoRecord)
                /\ (~absent /\ existing.status \in {"processing", "completed"})
                     => (res.is_duplicate /\ res.record = existing)
                /\ (~absent /\ existing.status = "failed") => ~res.is_duplicate)
    /\ [][\A s \in Callers :
            (ireq[s].pc = "idle" /\ ireq'[s] # ireq[s])
            => \E existing \in FirstRows :
                 LET live == /\ existing # NoRecord
                             /\ ~(existing.expires_at # NoExpiry /\ utcnow > existing.expires_at)
                 IN  /\ ireq'[s].is_duplicate
                           = (live /\ existing.status \in {"processing", "completed"})
                     /\ ireq'[s].pc = IF ireq'[s].is_duplicate THEN "idle" ELSE "create"
                     /\ (ireq'[s].is_duplicate => ireq'[s].record = existing)
                     /\ ((existing # NoRecord /\ ~live) => existing \notin idempotencykey')]_vars

\* A caller was answered duplicate with the only row, completed, at the very
\* hour the row expires.
C19_Witness ==
    \E s \in Callers :
        /\ ireq[s].returned = "duplicate"
        /\ ireq[s].record.status = "completed"
        /\ ireq[s].record.expires_at = utcnow
        /\ idempotencykey = { ireq[s].record }
        /\ idem_created = 1

\* C20: at no time are there two unexpired rows for the triple.
C20_OneUnexpiredRecord ==
    Cardinality({ record \in idempotencykey : ~IsExpired(record, utcnow) }) <= 1

\* C21: a completed row that is read before its expires_at is read with the
\* same answer and result again after any one operation, as long as it is
\* still before its expires_at.
C21_CompletedResultStable ==
    [][\A record \in idempotencykey :
         (record.status = "completed" /\ ~IsExpired(record, utcnow) /\ ~IsExpired(record, utcnow'))
         => \E again \in idempotencykey' :
              /\ again.id = record.id
              /\ CheckIdempotency(again, utcnow') = CheckIdempotency(record, utcnow)]_vars

\* C22: a tick that enqueues the workflow leaves next_run later than the
\* tick's time; a tick selects the schedule only when it is enabled and its
\* next_run has elapsed; no next_run instant is fired twice.
C22_NoDoubleFire ==
    /\ [][(Len(scheduler'.fired) > Len(scheduler.fired))
          => (/\ scheduler.due_at <= scheduler.now
              /\ schedule'.next_run > scheduler.now
              /\ \E r \in Runners : /\ runner[r].pc = "free"
                                    /\ runner'[r].pc = "queued"
                                    /\ \A q \in Runners \ {r} : runner'[q] = runner[q])]_vars
    /\ [][(scheduler.pc = "sleep" /\ scheduler'.pc = "workflow")
          => (schedule.enabled /\ schedule.next_run <= utcnow)]_vars
    /\ [](\A i, j \in 1..Len(scheduler.fired) :
            i < j => scheduler.fired[i] < scheduler.fired[j])

\* The scheduler has fired twice, and a tick found the schedule not due in
\* between.
C22_Witness ==
    /\ Len(scheduler.fired) = 2
    /\ scheduler.pc = "sleep"
    /\ schedule.next_run > utcnow

\* The smallest instant after now that the cron expression matches.
C23_Smallest(cron_expression, now, t) ==
    /\ t > now
    /\ Satisfies(cron_expression, t)
    /\ \A u \in (now + 1)..(t - 1) : ~Satisfies(cron_expression, u)

C24_SkipRunningAdvances ==
    [][(scheduler.pc = "commit" /\ scheduler'.pc = "sleep" /\ scheduler.workflow_status = "running")
       => (/\ runner' = runner
           /\ scheduler'.fired = scheduler.fired
           /\ schedule'.next_run > scheduler.now
           /\ schedule'.last_run >= scheduler.now
           /\ ~IsDue(schedule', scheduler.now))]_vars

\* A tick skipped the running workflow while an execution could have been
\* enqueued.
C24_Witness ==
    /\ scheduler.pc = "sleep"
    /\ wf_status = "running"
    /\ HasFreeRunner
    /\ Len(scheduler.fired) = 1
    /\ schedule.last_run > scheduler.fired[1]
    /\ schedule.next_run > schedule.last_run

\* C25: a stop that arrives while a tick is processing the schedule either
\* leaves the schedule row as it was, or the row has the tick's last_run and
\* next_run and the workflow is enqueued (unless it was read as running).
C25_StopLetsTickComplete ==
    [][(scheduler.running /\ ~scheduler'.running /\ scheduler.pc \in {"workflow", "commit"})
       => \/ schedule' = schedule
          \/ /\ schedule'.last_run = scheduler.due.last_run
             /\ schedule'.next_run = scheduler.due.next_run
             /\ \/ scheduler.workflow_status = "running"
                \/ \E r \in Runners : runner[r].pc = "free" /\ runner'[r].pc = "queued"]_vars

\* C26: no broadcast ends with an exception raised to its caller.
C26_BroadcastNeverRaises ==
    \A b \in Publishers : publisher[b].raised = NULL

\* C27: a broadcast that is waiting for a send gets past that send.
C27_BroadcastCompletes ==
    \A b \in 1..MaxPublishers :
        \A w \in 1..MaxSockets :
            (publisher[b].pc = "send" /\ publisher[b].connection = w)
            ~> ~(publisher[b].pc = "send" /\ publisher[b].connection = w)

\* C28: the events published for one entity are ordered: once a task's
\* completed or failed event is out, no further event of that task follows;
\* after a workflow's completed, failed or cancelled event no running,
\* paused or resumed event follows; and completed never follows paused or
\* cancelled directly.
C28_EventsMonotonic ==
    [][/\ \A n \in Names(tasks) :
            task_event[n] \in {"completed", "failed"} => task_event'[n] = task_event[n]
       /\ wf_event \in {"completed", "failed", "cancelled"}
            => wf_event' \notin {"running", "paused", "resumed"}
       /\ wf_event \in {"paused", "cancelled"} /\ wf_event' # wf_event
            => wf_event' # "completed"]_vars

\* C29: in every DynamicTaskGroup row completed_tasks + failed_tasks is at
\* most total_tasks.
C29_CountersWithinTotal ==
    \A id \in GroupIds :
        dynamictaskgroup[id].completed_tasks + dynamictaskgroup[id].failed_tasks
            <= dynamictaskgroup[id].total_tasks

\* C30: when an execution of a group ends, the group's status is completed
\* iff its failed_tasks is 0 and failed otherwise; a map group's results hold
\* one entry per item in item order, the raised ones as their message and
\* counted in failed_tasks.
C30_FinalStatus ==
    [][\A e \in GroupExecs :
          (group_exec[e].pc # "idle" /\ group_exec'[e].pc = "idle") =>
              LET row == dynamictaskgroup'[group_exec[e].id]
                  returned == group_exec[e].returned
              IN  /\ row.status \in {"completed", "failed"}
                  /\ row.status = "completed" <=> row.failed_tasks = 0
                  /\ row.task_type = "map" =>
                        /\ Len(row.results.list) = Len(row.items)
                        /\ \A i \in 1..Len(row.items) :
                              /\ returned[i].done
                              /\ row.results.list[i] = returned[i].value
                        /\ row.failed_tasks = Count(returned, TRUE)]_vars

\* The dependencies of the task named n, as a set.
C31_Dependencies(ts, n) ==
    { TaskByName(ts, n).dependencies[i] : i \in 1..Len(TaskByName(ts, n).dependencies) }

\* C31: in a successful output every dependency of a task of layer j is in
\* a layer before j.
C31_DependenciesInEarlierLayers ==
    execution_levels.ok =>
        \A j \in 1..Len(execution_levels.levels) :
            \A i \in 1..Len(execution_levels.levels[j]) :
                \A dep \in C31_Dependencies(workflow_data, execution_levels.levels[j][i]) :
                    \E k \in 1..(j - 1) : SeqContains(execution_levels.levels[k], dep)

\* A sorted list in which a task of the third layer depends on tasks of the
\* first and of the second layer.
C31_Witness ==
    /\ execution_levels.ok
    /\ Len(execution_levels.levels) = 3
    /\ \E n \in Names(workflow_data) :
          /\ SeqContains(execution_levels.levels[3], n)
          /\ \E d1, d2 \in C31_Dependencies(workflow_data, n) :
                /\ SeqContains(execution_levels.levels[1], d1)
                /\ SeqContains(execution_levels.levels[2], d2)

\* There is a chain of at most fuel dependencies from task n to the name m.
RECURSIVE C32_DependsOn(_, _, _, _)
C32_DependsOn(ts, n, m, fuel) ==
    /\ fuel > 0
    /\ \E dep \in C31_Dependencies(ts, n) :
          \/ dep = m
          \/ dep \in Names(ts) /\ C32_DependsOn(ts, dep, m, fuel - 1)

C32_Unknown(ts) ==
    \E n \in Names(ts) : \E dep \in C31_Dependencies(ts, n) : dep \notin Names(ts)

C32_Cyclic(ts) == \E n \in Names(ts) : C32_DependsOn(ts, n, n, Len(ts))

RECURSIVE C33_Chain(_, _, _)
C33_Chain(ts, n, fuel) ==
    IF C31_Dependencies(ts, n) = {} \/ fuel = 0 THEN 0
    ELSE LET depths == { C33_Chain(ts, dep, fuel - 1) : dep \in C31_Dependencies(ts, n) }
         IN  1 + CHOOSE d \in depths : \A e \in depths : e <= d

C33_Depth(ts, n) == C33_Chain(ts, n, Len(ts))

\* C33: in a successful output every task is in exactly one layer, once, and
\* the layer's index is the length of the longest dependency chain ending at
\* the task.
C33_LongestChainLayering ==
    execution_levels.ok =>
        \A n \in Names(workflow_data) :
            LET places == { << j, i >> \in (1..Len(workflow_data)) \X (1..Len(workflow_data)) :
                              /\ j <= Len(execution_levels.levels)
                              /\ i <= Len(execution_levels.levels[j])
                              /\ execution_levels.levels[j][i] = n }
            IN  /\ Cardinality(places) = 1
                /\ \A pl \in places : pl[1] - 1 = C33_Depth(workflow_data, n)

\* A sorted list with a task whose dependencies end chains of different
\* lengths, and two tasks sharing a layer.
C33_Witness ==
    /\ execution_levels.ok
    /\ \E n \in Names(workflow_data) : \E d1, d2 \in C31_Dependencies(workflow_data, n) :
          C33_Depth(workflow_data, d1) < C33_Depth(workflow_data, d2)
    /\ Len(execution_levels.levels[1]) + Len(execution_levels.levels[2]) = 2
    /\ Len(workflow_data) = 3

\* C34: a create_workflow call whose task list is no valid DAG ends with the
\* DAG validation error, and when it has ended neither the workflow nor any
\* of its tasks is stored.
C34_InvalidDagStoresNothing ==
    /\ create_req.pc = "done"
    /\ C32_Unknown(workflow_data) \/ C32_Cyclic(workflow_data)
    => /\ create_req.raised = "DAGValidationError"
       /\ ~repository.workflow
       /\ repository.tasks = << >>

\* A request with two tasks that depend on each other has been rejected.
C34_Witness ==
    /\ create_req = [pc |-> "done", raised |-> "DAGValidationError"]
    /\ Len(workflow_data) = 2
    /\ ~C32_Unknown(workflow_data)
    /\ \A n \in Names(workflow_data) : C31_Dependencies(workflow_data, n) # {}
    /\ repository = EmptyRepository

\* C35 as stated: the delays of attempts 0, 1, 2, ... never decrease and
\* never exceed max_delay.
C35_DelayNonDecreasing ==
    /\ \A i \in 1..(Len(delays) - 1) : delays[i] <= delays[i + 1]
    /\ \A i \in 1..Len(delays) : delays[i] <= retry_policy.max_delay

\* C35 amended: the delay never decreases from an attempt n to attempt n + 1
\* while n + 1 is below max_retries, it never exceeds max_delay, and it is 0
\* for every attempt from max_retries on.
C35_DelayNonDecreasingBelowMaxRetries ==
    /\ \A i \in 1..(Len(delays) - 1) :
          i < retry_policy.max_retries => delays[i] <= delays[i + 1]
    /\ \A i \in 1..Len(delays) : delays[i] <= retry_policy.max_delay
    /\ \A i \in 1..Len(delays) : i - 1 >= retry_policy.max_retries => delays[i] = 0

\* The delay has grown, then stayed at max_delay, then dropped to 0 at
\* attempt max_retries.
C35_Witness ==
    /\ Len(delays) = 4
    /\ retry_policy.max_retries = 3
    /\ delays[1] < delays[2]
    /\ delays[2] = retry_policy.max_delay
    /\ delays[3] = retry_policy.max_delay
    /\ delays[4] = 0

\* C36: every retry of a task, after a timeout or after any other error,
\* increments the task-retries counter of the task by exactly one.
C36_EveryRetryCounted ==
    [][\A r \in Runners : \A n \in Names(tasks) :
          /\ r \in DOMAIN co /\ n \in DOMAIN co[r]
          /\ co[r][n].pc = "action"
          /\ co'[r][n].pc = "attempt"
          => task_retries_total'[n] = task_retries_total[n] + 1]_vars

\* C37: a task enters running only when every task named in its dependencies
\* has status completed, and it is never running while one of them is
\* pending, running or failed (executions started with all tasks pending).
C37_RunsAfterDependencies ==
    /\ [][\A r \in Runners : \A n \in Names(tasks) :
            (co[r][n].pc = "exec" /\ co'[r][n].pc = "action")
            => \A dep \in C31_Dependencies(tasks, n) : task_status[dep] = "completed"]_vars
    /\ [](\A r \in Runners : \A n \in Names(tasks) :
            co[r][n].pc = "action"
            => \A dep \in C31_Dependencies(tasks, n) : task_status[dep] = "completed")

\* C38: the step by which a runner sets the workflow completed finds every
\* task completed, and the workflow is never completed while one of its tasks
\* is pending, running or failed.
C38_CompletedMeansAllCompleted ==
    /\ [][\A r \in Runners :
            (runner[r].pc = "gather" /\ runner'[r].pc = "completed")
            => \A n \in Names(tasks) : task_status[n] = "completed"]_vars
    /\ [](wf_status = "completed"
            => \A n \in Names(tasks) : task_status[n] = "completed")

\* C39: at most one runner is executing the workflow at any time.
C39_AtMostOneRunner ==
    Cardinality({ r \in Runners : runner[r].pc \in {"refresh", "check", "gather"} }) <= 1

\* C40: when a broadcast has ended, every subscriber that was in the list
\* when it was called and has stayed connected and healthy since has been
\* sent the message exactly once.
C40_HealthySubscribersReceiveOnce ==
    \A b \in Publishers : \A w \in Sockets :
        /\ publisher[b].pc = "idle"
        /\ Contains(publisher[b].audience, w)
        /\ websocket[w] = "open"
        /\ Contains(active_connections, w)
        => CountIn(publisher[b].sent, w) = 1

====
